---- MODULE Spec2Model ----
(***************************************************************************)
(* A model of the UCI engine client of cgir (src/src/uci.rs): the          *)
(* handshake of Uci::start_engine, the analysis sessions of Uci::analyze   *)
(* with their background workers, and Uci::check_for_blunder.              *)
(*                                                                         *)
(* The engine subprocess is the environment.  Its input pipe is the        *)
(* sequence `written` of commands (the engine has consumed the first       *)
(* engPos of them), its output pipe is the sequence `stdout` of lines not  *)
(* yet read.  Fields named `sess` are ghost tags: they record which        *)
(* analyze() call a command belongs to, or which Go a line answers, and    *)
(* no modelled code reads them.                                            *)
(***************************************************************************)
EXTENDS Integers, Sequences, FiniteSets

(***************************************************************************)
(* Bounds of the model.                                                    *)
(***************************************************************************)
\* analyze() calls made by the free caller of Spec
MaxSessions == 2
\* lines besides the BestMoves (Info lines and lines that are neither Info
\* nor BestMove) the engine emits during the sessions
MaxLines == 2
\* lines start_engine reads during the handshake
MaxHsLines == 6

(***************************************************************************)
(* Program constants.                                                      *)
(***************************************************************************)
\* value of the Threads option, uci.rs line 92
ThreadsValue == "4"
\* value of the MultiPV option, uci.rs line 98
MultiPvValue == "5"
\* the depth the tests and the UI analyse at, uci.rs line 338
TestDepth == 7

\* Option<T>: None is the empty sequence, Some(v) the one-element sequence
None == <<>>

Some(v) == <<v>>

IsSome(o) == o # <<>>

Last(s) == s[Len(s)]

(***************************************************************************)
(* Commands written to the engine (vampirc_uci::UciMessage, GUI side).     *)
(***************************************************************************)
Cmd(c) == [cmd |-> c, name |-> "", value |-> None, fen |-> "", moves |-> <<>>,
           depth |-> None, infinite |-> FALSE, sess |-> 0]

SetOption(n, v) == [Cmd("SetOption") EXCEPT !.name = n, !.value = Some(v)]

\* the position of the tests (uci.rs line 336), as its FEN
Fen == "r1bqkb1r/pppp1ppp/2n2n2/4p3/4P3/3P1P2/PPP3PP/RNBQKBNR w KQkq - 0 1"

\* a Position that leaves the moves out
PositionCmd_NoMoves(fen, moves, s) == [Cmd("Position") EXCEPT !.fen = fen, !.sess = s]

PositionCmd(fen, moves, s) == [Cmd("Position") EXCEPT !.fen = fen, !.moves = moves, !.sess = s]

\* a Go that leaves the depth out
GoCmd_Infinite(depth, s) == [Cmd("Go") EXCEPT !.infinite = TRUE, !.sess = s]

\* Go with search_control.depth = Some(d) when a depth is given, with
\* time_control = Infinite when it is not
GoCmd(depth, s) ==
    IF IsSome(depth)
    THEN [Cmd("Go") EXCEPT !.depth = depth, !.sess = s]
    ELSE [Cmd("Go") EXCEPT !.infinite = TRUE, !.sess = s]

StopCmd(s) == [Cmd("Stop") EXCEPT !.sess = s]

(***************************************************************************)
(* Lines of the engine's output and their decoding (vampirc_uci::parse_one,*)
(* an external codec: a line is modelled by what it decodes to).           *)
(***************************************************************************)
Line(k) == [kind |-> k, attrs |-> <<>>, mv |-> "", ponder |-> None, sess |-> 0]

InfoLine(attrs, s) == [Line("info") EXCEPT !.attrs = attrs, !.sess = s]

BestMoveLine(m, p, s) == [Line("bestmove") EXCEPT !.mv = m, !.ponder = p, !.sess = s]

\* end of file: read_line returns Ok(0) and leaves the buffer empty
EofLine == Line("eof")

\* bytes that are not UTF-8
InvalidLine == Line("invalid")

\* read_line returns Err on them, and expect("Error reading") panics
ReadFails(line) == line = InvalidLine

Msg(t) == [type |-> t, attrs |-> <<>>, best_move |-> "", ponder |-> None]

parse_one(line) ==
    CASE line.kind = "info" -> [Msg("Info") EXCEPT !.attrs = line.attrs]
      [] line.kind = "bestmove" -> [Msg("BestMove") EXCEPT !.best_move = line.mv, !.ponder = line.ponder]
      [] line.kind = "uciok" -> Msg("UciOk")
      [] line.kind = "readyok" -> Msg("ReadyOk")
      [] line.kind = "id" -> Msg("Id")
      [] line.kind = "option" -> Msg("Option")
      [] OTHER -> Msg("Unknown")

(***************************************************************************)
(* Info attributes (vampirc_uci::UciInfoAttribute).                        *)
(***************************************************************************)
Attr(a) == [a |-> a, n |-> 0, cp |-> None, mate |-> None, moves |-> <<>>]

Depth(d) == [Attr("Depth") EXCEPT !.n = d]

ScoreCp(c) == [Attr("Score") EXCEPT !.cp = Some(c)]

ScoreMate(m) == [Attr("Score") EXCEPT !.mate = Some(m)]

Pv(ms) == [Attr("Pv") EXCEPT !.moves = ms]

MultiPv(k) == [Attr("MultiPv") EXCEPT !.n = k]

StringAttr == Attr("String")

NodesAttr == Attr("Nodes")

(***************************************************************************)
(* Analysis events (enum Analysis, struct PossibleMove).                   *)
(***************************************************************************)
\* #[derive(Default)]: every field zero or empty
PossibleMoveDefault == [depth |-> 0, score |-> 0, multi_pv |-> 0, moves |-> <<>>]

\* a Score arm that takes the mate distance for the score when the
\* attribute has no centipawn value
ApplyAttr_MateAsScore(pm, attr) ==
    CASE attr.a = "Depth" -> [pm EXCEPT !.depth = attr.n]
      [] attr.a = "Score" -> IF IsSome(attr.cp) THEN [pm EXCEPT !.score = attr.cp[1]]
                             ELSE IF IsSome(attr.mate) THEN [pm EXCEPT !.score = attr.mate[1]]
                             ELSE pm
      [] attr.a = "Pv" -> [pm EXCEPT !.moves = attr.moves]
      [] attr.a = "MultiPv" -> [pm EXCEPT !.multi_pv = attr.n]
      [] OTHER -> pm

\* one arm of the match on an attribute, uci.rs lines 193-201
ApplyAttr(pm, attr) ==
    CASE attr.a = "Depth" -> [pm EXCEPT !.depth = attr.n]
      [] attr.a = "Score" -> IF IsSome(attr.cp) THEN [pm EXCEPT !.score = attr.cp[1]] ELSE pm
      [] attr.a = "Pv" -> [pm EXCEPT !.moves = attr.moves]
      [] attr.a = "MultiPv" -> [pm EXCEPT !.multi_pv = attr.n]
      [] OTHER -> pm

RECURSIVE ApplyAttrs(_, _)
ApplyAttrs(pm, attrs) ==
    IF attrs = <<>> THEN pm
    ELSE ApplyAttrs(ApplyAttr(pm, Head(attrs)), Tail(attrs))

\* an Info arm that leaves multi_pv at the default of the struct
ToPossibleMove_PlainDefault(attrs) == ApplyAttrs(PossibleMoveDefault, attrs)

\* the Info arm, uci.rs lines 184-210: a fresh default, multi_pv set to 1,
\* then the attributes of this message in order
ToPossibleMove(attrs) ==
    ApplyAttrs([PossibleMoveDefault EXCEPT !.multi_pv = 1], attrs)

Event(t) == [type |-> t, pm |-> PossibleMoveDefault, mv |-> ""]

\* the match of uci.rs lines 182-217 on a message the worker publishes
ToAnalysis(msg) ==
    IF msg.type = "Info"
    THEN [Event("PossibleMove") EXCEPT !.pm = ToPossibleMove(msg.attrs)]
    ELSE [Event("BestMove") EXCEPT !.mv = msg.best_move]

\* the messages the match has an arm for; every other one reaches panic!
Publishable(msg) == msg.type \in {"Info", "BestMove"}

(***************************************************************************)
(* Inputs.                                                                 *)
(***************************************************************************)
\* the i-th Info message of a search: the candidate lines alternate
\* between the two multipv indexes, the depth grows
InfoAt(i) ==
    IF i % 2 = 1
    THEN <<Depth((i + 1) \div 2), ScoreCp(20), MultiPv(1), Pv(<<"e2e4", "e7e5">>)>>
    ELSE <<Depth(i \div 2), MultiPv(2), ScoreCp(-5), Pv(<<"d2d4">>)>>

\* Info messages that differ in their score attribute: a mate distance for
\* either side, a centipawn value, a mate distance alone, no score
ScoreInfos ==
    { <<Depth(3), ScoreMate(2), MultiPv(2), Pv(<<"e2e4">>)>>,
      <<Depth(3), ScoreCp(35), MultiPv(2), Pv(<<"e2e4">>)>>,
      <<ScoreMate(-1)>>,
      <<Depth(3), MultiPv(2), Pv(<<"e2e4">>)>> }

BestMoves == { <<"e2e4", Some("e7e5")>> }

\* the i-th line, when it is neither Info nor BestMove: a ReadyOk nobody
\* asked for, or text that is no UCI message
StrayAt(i) == IF i % 2 = 1 THEN "readyok" ELSE "unknown"

DepthArgs == {None, Some(TestDepth)}

\* the moves arguments of analyze(): none, as at uci.rs lines 247 and 338,
\* and two
MovesArgs == {<<>>, <<"e2e4", "e7e5">>}

(***************************************************************************)
(* State.                                                                  *)
(***************************************************************************)
VARIABLES
    written,      \* every command written to the engine's input, in order
    engPos,       \* how many of them the engine has consumed
    eng,          \* the engine: idle or searching, and for which Go
    nlines,       \* lines besides the BestMoves the engine has emitted
    stdout,       \* lines the engine has written and nobody has read yet
    stdinLock,    \* Mutex<ChildStdin>: "free", "caller" inside analyze(), the
                  \* worker that holds it, or "poisoned"
    stdoutLock,   \* Mutex<BufReader<ChildStdout>>: "free", the worker that
                  \* holds it, or "poisoned"
    depthArg,     \* the depth argument this caller gives analyze()
    nsess,        \* analyze() calls that have written their Go or panicked
    aargs,        \* the arguments of the analyze() call in progress
    wpc,          \* each worker's position
    readLog,      \* the lines each worker has read, in order
    chan,         \* the events each worker has sent on its channel, in order
    rx,           \* each session's receiver: "none" until analyze() returns
                  \* it, "alive", "dropped", or "unwound" when the call
                  \* panicked and returned none
    hpc,          \* the position of start_engine
    hmsg,         \* its variable `message`
    hlog,         \* what start_engine has written and read, in order
    hEof,         \* the engine has closed its output
    stdinClosed,  \* the engine has closed its input
    cpc,          \* the caller: "free", in analyze_test or in check_for_blunder
    drained,      \* the caller's `for analysis in rx` loops that have ended
    rcvd,         \* the events the caller has taken from each receiver
    best_moves,   \* check_for_blunder's map of the first session, by multi_pv
    best_responses, \* its map of the second session
    proposed,     \* check_for_blunder's proposed_move
    logDebug,     \* the debug level of the logger is enabled
    result,       \* what check_for_blunder has returned
    notation      \* the call of to_notation: its arguments and what it returned

vars == <<written, engPos, eng, nlines, stdout, stdinLock, stdoutLock,
          depthArg, nsess, aargs, wpc, readLog, chan, rx,
          hpc, hmsg, hlog, hEof, stdinClosed,
          cpc, drained, rcvd, best_moves, best_responses, proposed, logDebug, result, notation>>

hsVars == <<hpc, hmsg, hlog, hEof, stdinClosed>>

progVars == <<cpc, drained, rcvd, best_moves, best_responses, proposed, logDebug, result, notation>>

engineVars == <<engPos, eng, nlines, stdout>>

callerVars == <<depthArg, nsess, aargs>>

workerVars == <<wpc, readLog, chan>>

Sessions == 1..MaxSessions

\* the commands a successful start_engine has written, uci.rs lines 48-101
HandshakeCommands ==
    << Cmd("Uci"), Cmd("IsReady"), Cmd("UciNewGame"),
       SetOption("Threads", ThreadsValue),
       SetOption("UCI_AnalyseMode", "true"),
       SetOption("MultiPV", MultiPvValue),
       Cmd("IsReady") >>

EngineIdle == [st |-> "idle", sess |-> 0, fixed |-> FALSE, stop |-> FALSE]

(***************************************************************************)
(* The engine (environment): a UCI engine consumes its input in order and  *)
(* at once, answers a Go with Info lines and one BestMove, ends a          *)
(* fixed-depth search by itself and any search on Stop, and does not take  *)
(* up a Go before the search in progress has ended.                        *)
(***************************************************************************)
EngineReact(e, c) ==
    CASE c.cmd = "Go" ->
            [st |-> "searching", sess |-> c.sess, fixed |-> IsSome(c.depth), stop |-> FALSE]
      [] c.cmd = "Stop" /\ e.st = "searching" -> [e EXCEPT !.stop = TRUE]
      [] OTHER -> e

RECURSIVE EngineConsume(_, _, _)
EngineConsume(e, pos, cmds) ==
    IF pos >= Len(cmds) \/ (cmds[pos + 1].cmd = "Go" /\ e.st = "searching")
    THEN [eng |-> e, pos |-> pos]
    ELSE EngineConsume(EngineReact(e, cmds[pos + 1]), pos + 1, cmds)

\* HashMap::new()
EmptyMap == [k \in {} |-> PossibleMoveDefault]

\* the handle start_engine returns: the stream unlocked, the engine has
\* consumed the handshake and is idle, no session exists
Init ==
    /\ written = HandshakeCommands
    /\ engPos = Len(HandshakeCommands)
    /\ eng = EngineIdle
    /\ nlines = 0
    /\ stdout = <<>>
    /\ stdinLock = "free"
    /\ stdoutLock = "free"
    /\ depthArg \in DepthArgs
    /\ nsess = 0
    /\ aargs = <<>>
    /\ wpc = [s \in Sessions |-> "none"]
    /\ readLog = [s \in Sessions |-> <<>>]
    /\ chan = [s \in Sessions |-> <<>>]
    /\ rx = [s \in Sessions |-> "none"]
    /\ hpc = "ready"
    /\ hmsg = Msg("ReadyOk")
    /\ hlog = <<>>
    /\ hEof = FALSE
    /\ stdinClosed = FALSE
    /\ cpc = "free"
    /\ drained = 0
    /\ rcvd = [s \in Sessions |-> 0]
    /\ best_moves = EmptyMap
    /\ best_responses = EmptyMap
    /\ proposed = ""
    /\ logDebug = FALSE
    /\ result = None
    /\ notation = None

\* send_msg, lines 114-117: write_all and flush return Err once the engine
\* has closed its input, and expect panics
SendFails == stdinClosed

\* what send_msg does to the engine's input: the command reaches it, or,
\* when the write fails, nothing does
Write(c) ==
    IF SendFails
    THEN UNCHANGED <<written, eng, engPos>>
    ELSE /\ written' = Append(written, c)
         /\ LET r == EngineConsume(eng, engPos, Append(written, c)) IN
            /\ eng' = r.eng
            /\ engPos' = r.pos

EngineInfo(attrs) ==
    /\ ~hEof
    /\ eng.st = "searching"
    /\ ~eng.stop
    /\ nlines < MaxLines
    /\ stdout' = Append(stdout, InfoLine(attrs, eng.sess))
    /\ nlines' = nlines + 1
    /\ UNCHANGED <<written, engPos, eng, stdinLock, stdoutLock>>
    /\ UNCHANGED <<callerVars, workerVars, rx>>
    /\ UNCHANGED <<hsVars, progVars>>

\* the search ends; the engine takes up what has been waiting in its input
EngineBestMove(m, p) ==
    /\ ~hEof
    /\ eng.st = "searching"
    /\ eng.fixed \/ eng.stop
    /\ stdout' = Append(stdout, BestMoveLine(m, p, eng.sess))
    /\ LET r == EngineConsume(EngineIdle, engPos, written) IN
       /\ eng' = r.eng
       /\ engPos' = r.pos
    /\ UNCHANGED <<written, nlines, stdinLock, stdoutLock>>
    /\ UNCHANGED <<callerVars, workerVars, rx>>
    /\ UNCHANGED <<hsVars, progVars>>

\* a line that is neither Info nor BestMove, in the middle of a search
EngineStray(k) ==
    /\ ~hEof
    /\ eng.st = "searching"
    /\ nlines < MaxLines
    /\ stdout' = Append(stdout, Line(k))
    /\ nlines' = nlines + 1
    /\ UNCHANGED <<written, engPos, eng, stdinLock, stdoutLock>>
    /\ UNCHANGED <<callerVars, workerVars, rx>>
    /\ UNCHANGED <<hsVars, progVars>>

\* the engine closes its output: every read from now on, once the lines
\* written before are used up, is at end of file
EngineClose ==
    /\ ~hEof
    /\ hEof' = TRUE
    /\ UNCHANGED <<hpc, hmsg, hlog, stdinClosed>>
    /\ UNCHANGED <<written, stdinLock, stdoutLock, engineVars>>
    /\ UNCHANGED <<callerVars, workerVars, rx>>
    /\ UNCHANGED progVars

\* the engine closes its input: every write from now on fails
EngineCloseInput ==
    /\ ~stdinClosed
    /\ stdinClosed' = TRUE
    /\ UNCHANGED <<hpc, hmsg, hlog, hEof>>
    /\ UNCHANGED <<written, stdinLock, stdoutLock, engineVars>>
    /\ UNCHANGED <<callerVars, workerVars, rx>>
    /\ UNCHANGED progVars

\* the engine writes bytes that are not UTF-8, searching or not
EngineInvalid ==
    /\ ~hEof
    /\ nlines < MaxLines
    /\ stdout' = Append(stdout, InvalidLine)
    /\ nlines' = nlines + 1
    /\ UNCHANGED <<written, engPos, eng, stdinLock, stdoutLock>>
    /\ UNCHANGED <<callerVars, workerVars, rx>>
    /\ UNCHANGED <<hsVars, progVars>>

(***************************************************************************)
(* Uci::analyze on the calling thread, uci.rs lines 130-239.               *)
(***************************************************************************)
\* an analyze() that takes the lock for each send_msg alone
CallerGuardAfterPosition_PerCommand == "free"

\* the input's mutex after the Position command: the guard of line 134
\* lives to the end of the block at line 160
CallerGuardAfterPosition == "caller"

\* the call panics before it returns a receiver: at line 134 on a poisoned
\* mutex, or inside send_msg with the guard in hand
CallFails == stdinLock = "poisoned" \/ SendFails

\* the last call has written its Go and released the guard at line 160,
\* and has not yet spawned its thread at line 170
Spawning == nsess > 0 /\ rx[nsess] = "none"

\* lines 134-141: self.stdin.lock().unwrap(), then the Position command.  A
\* call that panics ends without a receiver; a panic inside send_msg
\* unwinds through the guard and poisons the mutex.
AnalyzePosition(moves, depth) ==
    /\ aargs = <<>>
    /\ ~Spawning
    /\ nsess < MaxSessions
    /\ stdinLock \in {"free", "poisoned"}
    /\ stdinLock' = IF CallFails THEN "poisoned" ELSE CallerGuardAfterPosition
    /\ UNCHANGED stdoutLock
    /\ aargs' = IF CallFails THEN <<>> ELSE <<[moves |-> moves, depth |-> depth]>>
    /\ nsess' = IF CallFails THEN nsess + 1 ELSE nsess
    /\ rx' = IF CallFails THEN [rx EXCEPT ![nsess + 1] = "unwound"] ELSE rx
    /\ IF stdinLock = "poisoned"
       THEN UNCHANGED <<written, eng, engPos>>
       ELSE Write(PositionCmd(Fen, moves, nsess + 1))
    /\ UNCHANGED <<nlines, stdout, depthArg>>
    /\ UNCHANGED workerVars
    /\ UNCHANGED <<hsVars, progVars>>

\* lines 143-160: the Go command and the end of the guard's block, where
\* the mutex is released.  When send_msg panics the call ends there, the
\* mutex poisoned; otherwise the call goes on to line 163 with no lock.
AnalyzeGo ==
    /\ aargs # <<>>
    /\ Write(GoCmd(aargs[1].depth, nsess + 1))
    /\ stdinLock' = IF SendFails THEN "poisoned" ELSE "free"
    /\ UNCHANGED stdoutLock
    /\ nsess' = nsess + 1
    /\ rx' = IF SendFails THEN [rx EXCEPT ![nsess + 1] = "unwound"] ELSE rx
    /\ aargs' = <<>>
    /\ UNCHANGED <<nlines, stdout, depthArg, wpc, readLog, chan>>
    /\ UNCHANGED <<hsVars, progVars>>

\* an analyze() that returns a receiver and spawns no thread
AnalyzeSpawn_NoWorker ==
    /\ Spawning
    /\ rx' = [rx EXCEPT ![nsess] = "alive"]
    /\ UNCHANGED <<written, stdinLock, stdoutLock>>
    /\ UNCHANGED <<engineVars, callerVars, workerVars>>
    /\ UNCHANGED <<hsVars, progVars>>

\* lines 163-238: the Arcs are cloned, the channel is created, the worker
\* thread is spawned and the receiver is returned
AnalyzeSpawn ==
    /\ Spawning
    /\ wpc' = [wpc EXCEPT ![nsess] = "read"]
    /\ rx' = [rx EXCEPT ![nsess] = "alive"]
    /\ UNCHANGED <<written, stdinLock, stdoutLock>>
    /\ UNCHANGED <<engineVars, callerVars, readLog, chan>>
    /\ UNCHANGED <<hsVars, progVars>>

\* line 170 when the system gives no thread: thread::spawn panics.  The Go
\* is written and no guard is held, so no mutex is poisoned; the call ends
\* with no worker and no receiver.
AnalyzeSpawnPanics ==
    /\ Spawning
    /\ rx' = [rx EXCEPT ![nsess] = "unwound"]
    /\ UNCHANGED <<written, stdinLock, stdoutLock>>
    /\ UNCHANGED <<engineVars, callerVars, workerVars>>
    /\ UNCHANGED <<hsVars, progVars>>

\* where a worker thread has ended: "done" after the break, "panicked" at
\* the panic! of line 215, "read_failed" at the expect of line 122,
\* "write_failed" at the expect of line 115, "stdout_poisoned" at the
\* unwrap of line 174, "stdin_poisoned" at the unwrap of line 226
EndedAt ==
    {"done", "panicked", "read_failed", "write_failed", "stdout_poisoned", "stdin_poisoned"}

\* the consumer drops the receiver of a session whose worker is running
DropReceiver(s) ==
    /\ rx[s] = "alive"
    /\ wpc[s] \notin {"none"} \cup EndedAt
    /\ rx' = [rx EXCEPT ![s] = "dropped"]
    /\ UNCHANGED <<written, stdinLock, stdoutLock>>
    /\ UNCHANGED <<engineVars, callerVars, workerVars>>
    /\ UNCHANGED <<hsVars, progVars>>

(***************************************************************************)
(* The worker thread of a session, uci.rs lines 170-235.                   *)
(***************************************************************************)
\* whether the loop ends after this message, line 219
BreakLoop(msg) == msg.type = "BestMove"

\* a loop that never breaks
AfterPublish_NoBreak(msg) == "read"

\* where the worker goes at the bottom of the loop, lines 231-233
AfterPublish(msg) == IF BreakLoop(msg) THEN "done" ELSE "read"

\* a worker that skips a message it has no arm for and reads on
AfterDecode_Resync(msg, receiver) ==
    IF ~Publishable(msg) THEN "read"
    ELSE IF receiver = "alive" THEN AfterPublish(msg)
    ELSE "stop"

\* a worker that ends when its receiver is gone
AfterDecode_BreakOnSendError(msg, receiver) ==
    IF ~Publishable(msg) THEN "panicked"
    ELSE IF receiver = "alive" THEN AfterPublish(msg)
    ELSE "done"

\* a worker that asks the engine to stop after every candidate line
AfterDecode_StopOnInfo(msg, receiver) ==
    IF ~Publishable(msg) THEN "panicked"
    ELSE IF receiver = "alive" /\ BreakLoop(msg) THEN AfterPublish(msg)
    ELSE "stop"

\* where the worker goes with a decoded message, lines 182-222: the match,
\* whose last arm panics, then tx.send, which fails exactly when the
\* receiver has been dropped
AfterDecode(msg, receiver) ==
    IF ~Publishable(msg) THEN "panicked"
    ELSE IF receiver = "alive" THEN AfterPublish(msg)
    ELSE "stop"

\* a channel that hands out the newest event first
Published_NewestFirst(ch, msg, receiver) ==
    IF Publishable(msg) /\ receiver = "alive"
    THEN <<ToAnalysis(msg)>> \o ch
    ELSE ch

\* what the channel holds after lines 182-222: the event is appended when
\* the match yields one and tx.send succeeds
Published(ch, msg, receiver) ==
    IF Publishable(msg) /\ receiver = "alive"
    THEN Append(ch, ToAnalysis(msg))
    ELSE ch

\* The loop is taken step by step, with the scopes of its two lock guards.
\* A worker is at "read" before stdout.lock(), at "locked" inside recv_msg
\* with the guard of the output, at "decoded" with the message and no
\* guard, at "stop" before stdin.lock() and at "stopping" with the guard of
\* the input.

\* the threads that take the locks: the caller and one worker per session
ThreadNames == <<"worker1", "worker2", "worker3", "worker4">>

Thread(s) == ThreadNames[s]

\* a worker that keeps the guard of the output until its loop ends
ReleasedStdout_HeldThroughLoop(s, msg) == Thread(s)

\* a worker whose match, and with it the panic! of its last arm, is inside
\* the scope of the guard of the output: the panic poisons the mutex
ReleasedStdout_MatchInScope(s, msg) == IF Publishable(msg) THEN "free" ELSE "poisoned"

\* the output's mutex at the end of the block of lines 173-177, when
\* recv_msg has returned: the guard is dropped whatever the message is
ReleasedStdout(s, msg) == "free"

\* line 174: stdout_clone.lock().unwrap(); a poisoned mutex makes unwrap panic
WorkerLockStdout(s) ==
    /\ wpc[s] = "read"
    /\ stdoutLock \in {"free", "poisoned"}
    /\ IF stdoutLock = "free"
       THEN /\ stdoutLock' = Thread(s)
            /\ wpc' = [wpc EXCEPT ![s] = "locked"]
       ELSE /\ stdoutLock' = stdoutLock
            /\ wpc' = [wpc EXCEPT ![s] = "stdout_poisoned"]
    /\ UNCHANGED <<written, stdinLock, engineVars, callerVars, readLog, chan, rx>>
    /\ UNCHANGED <<hsVars, progVars>>

\* lines 176-177: recv_msg blocks until a line is there or the output is at
\* end of file, where read_line yields the empty line.  It returns the line
\* decoded and the block ends; on bytes that are not UTF-8 read_line
\* returns Err, expect panics inside the guard's scope and the mutex of the
\* output is poisoned.
WorkerRecv(s) ==
    /\ wpc[s] = "locked"
    /\ stdout # <<>> \/ hEof
    /\ LET line == IF stdout # <<>> THEN Head(stdout) ELSE EofLine IN
       IF ReadFails(line)
       THEN /\ readLog' = readLog
            /\ stdoutLock' = "poisoned"
            /\ wpc' = [wpc EXCEPT ![s] = "read_failed"]
       ELSE /\ readLog' = [readLog EXCEPT ![s] = Append(@, line)]
            /\ stdoutLock' = ReleasedStdout(s, parse_one(line))
            /\ wpc' = [wpc EXCEPT ![s] = "decoded"]
    /\ stdout' = IF stdout # <<>> THEN Tail(stdout) ELSE stdout
    /\ UNCHANGED <<written, engPos, eng, nlines, stdinLock, chan, rx>>
    /\ UNCHANGED callerVars
    /\ UNCHANGED <<hsVars, progVars>>

\* lines 182-233 up to stdin_clone.lock(): the match, tx.send, the break
WorkerPublish(s) ==
    /\ wpc[s] = "decoded"
    /\ LET msg == parse_one(Last(readLog[s])) IN
       /\ wpc' = [wpc EXCEPT ![s] = AfterDecode(msg, rx[s])]
       /\ chan' = [chan EXCEPT ![s] = Published(@, msg, rx[s])]
    /\ UNCHANGED <<written, stdinLock, stdoutLock, engineVars, callerVars, readLog, rx>>
    /\ UNCHANGED <<hsVars, progVars>>

\* line 226: stdin_clone.lock().unwrap(); a poisoned mutex makes unwrap panic
WorkerLockStdin(s) ==
    /\ wpc[s] = "stop"
    /\ stdinLock \in {"free", "poisoned"}
    /\ IF stdinLock = "free"
       THEN /\ stdinLock' = Thread(s)
            /\ wpc' = [wpc EXCEPT ![s] = "stopping"]
       ELSE /\ stdinLock' = stdinLock
            /\ wpc' = [wpc EXCEPT ![s] = "stdin_poisoned"]
    /\ UNCHANGED <<written, stdoutLock, engineVars, callerVars, readLog, chan, rx>>
    /\ UNCHANGED <<hsVars, progVars>>

\* lines 227-233: the Stop command, the end of the guard's scope, the
\* break; when send_msg panics the guard is dropped by the unwinding and
\* the mutex of the input is poisoned
WorkerSendStop(s) ==
    /\ wpc[s] = "stopping"
    /\ Write(StopCmd(s))
    /\ stdinLock' = IF SendFails THEN "poisoned" ELSE "free"
    /\ wpc' = [wpc EXCEPT ![s] = IF SendFails THEN "write_failed"
                                 ELSE AfterPublish(parse_one(Last(readLog[s])))]
    /\ UNCHANGED <<nlines, stdout, stdoutLock, readLog, chan, rx>>
    /\ UNCHANGED callerVars
    /\ UNCHANGED <<hsVars, progVars>>

\* one step of a worker whose receiver is kept: lines 173-222
WorkerReads(s) ==
    \/ WorkerLockStdout(s)
    \/ WorkerRecv(s)
    \/ WorkerPublish(s)

\* one step of the worker of a session
Worker(s) ==
    \/ WorkerReads(s)
    \/ WorkerLockStdin(s)
    \/ WorkerSendStop(s)

(***************************************************************************)
(* Spec: any caller of analyze() that analyses at one depth setting.  It   *)
(* may call analyze() again at any time and drop a receiver at any time.   *)
(***************************************************************************)
Next ==
    \/ EngineInfo(InfoAt(nlines + 1))
    \/ \E b \in BestMoves : EngineBestMove(b[1], b[2])
    \/ EngineStray(StrayAt(nlines + 1))
    \/ AnalyzePosition(<<>>, depthArg)
    \/ AnalyzeGo
    \/ AnalyzeSpawn
    \/ \E s \in Sessions : DropReceiver(s)
    \/ \E s \in Sessions : Worker(s)

Spec == Init /\ [][Next]_vars

(***************************************************************************)
(* SpecKeep: a caller at one depth setting that may call analyze() again   *)
(* at any time and keeps every receiver, and the same engine.              *)
(***************************************************************************)
KeepNext ==
    \/ EngineInfo(InfoAt(nlines + 1))
    \/ \E b \in BestMoves : EngineBestMove(b[1], b[2])
    \/ EngineStray(StrayAt(nlines + 1))
    \/ AnalyzePosition(<<>>, depthArg)
    \/ AnalyzeGo
    \/ AnalyzeSpawn
    \/ \E s \in Sessions : WorkerReads(s)

SpecKeep == Init /\ [][KeepNext]_vars

(***************************************************************************)
(* SpecArgs: a caller that chooses the moves and the depth of every call   *)
(* of analyze() anew; the engine answers a Go with the BestMove alone.     *)
(***************************************************************************)
ArgsInit == Init /\ depthArg = None

ArgsNext ==
    \/ \E b \in BestMoves : EngineBestMove(b[1], b[2])
    \/ \E moves \in MovesArgs, depth \in DepthArgs : AnalyzePosition(moves, depth)
    \/ AnalyzeGo
    \/ AnalyzeSpawn
    \/ \E s \in Sessions : DropReceiver(s)
    \/ \E s \in Sessions : Worker(s)

SpecArgs == ArgsInit /\ [][ArgsNext]_vars

(***************************************************************************)
(* SpecDrop: the caller of Spec and an engine that writes only Info and    *)
(* BestMove lines, with the threads scheduled fairly.  The engine ends a   *)
(* fixed-depth search and a stopped search; nothing obliges it to go on    *)
(* writing Info lines while it searches.                                   *)
(***************************************************************************)
DropNext ==
    \/ EngineInfo(InfoAt(nlines + 1))
    \/ \E b \in BestMoves : EngineBestMove(b[1], b[2])
    \/ AnalyzePosition(<<>>, depthArg)
    \/ AnalyzeGo
    \/ AnalyzeSpawn
    \/ \E s \in Sessions : DropReceiver(s)
    \/ \E s \in Sessions : Worker(s)

DropFairness ==
    /\ \A s \in Sessions : WF_vars(Worker(s))
    /\ WF_vars(AnalyzeGo)
    /\ WF_vars(AnalyzeSpawn)
    /\ WF_vars(\E b \in BestMoves : EngineBestMove(b[1], b[2]))

SpecDrop == Init /\ [][DropNext]_vars /\ DropFairness

(***************************************************************************)
(* SpecEof: the same caller, and an engine that fails: at any time it may  *)
(* close its output, close its input (an engine that exits does both), or  *)
(* write bytes that are not UTF-8; and a system that may give analyze() no *)
(* thread.                                                                 *)
(***************************************************************************)
EofNext ==
    \/ EngineInfo(InfoAt(nlines + 1))
    \/ \E b \in BestMoves : EngineBestMove(b[1], b[2])
    \/ EngineClose
    \/ EngineCloseInput
    \/ EngineInvalid
    \/ AnalyzePosition(<<>>, depthArg)
    \/ AnalyzeGo
    \/ AnalyzeSpawn
    \/ AnalyzeSpawnPanics
    \/ \E s \in Sessions : DropReceiver(s)
    \/ \E s \in Sessions : Worker(s)

SpecEof == Init /\ [][EofNext]_vars

(***************************************************************************)
(* SpecScore: a caller that analyses at the fixed depth and keeps its       *)
(* receivers, and an engine whose Info messages carry a mate distance, a   *)
(* centipawn value or no score.                                            *)
(***************************************************************************)
ScoreInit == Init /\ depthArg = Some(TestDepth)

ScoreNext ==
    \/ \E attrs \in ScoreInfos : EngineInfo(attrs)
    \/ \E b \in BestMoves : EngineBestMove(b[1], b[2])
    \/ AnalyzePosition(<<>>, depthArg)
    \/ AnalyzeGo
    \/ AnalyzeSpawn
    \/ \E s \in Sessions : WorkerReads(s)

SpecScore == ScoreInit /\ [][ScoreNext]_vars

(***************************************************************************)
(* SpecLocks: a caller that analyses without a depth, calls analyze()      *)
(* again and drops receivers at any time, and an engine that writes Info   *)
(* and BestMove lines, lines that are neither, and bytes that are not      *)
(* UTF-8, and that may close its input; the system may give analyze() no   *)
(* thread.                                                                 *)
(***************************************************************************)
LocksInit == Init /\ depthArg = None

LocksNext ==
    \/ EngineInfo(InfoAt(nlines + 1))
    \/ \E b \in BestMoves : EngineBestMove(b[1], b[2])
    \/ EngineStray(StrayAt(nlines + 1))
    \/ EngineInvalid
    \/ EngineCloseInput
    \/ AnalyzePosition(<<>>, depthArg)
    \/ AnalyzeGo
    \/ AnalyzeSpawn
    \/ AnalyzeSpawnPanics
    \/ \E s \in Sessions : DropReceiver(s)
    \/ \E s \in Sessions : Worker(s)

SpecLocks == LocksInit /\ [][LocksNext]_vars

(***************************************************************************)
(* SpecAbort: a caller that calls analyze() again only when the workers of *)
(* its earlier sessions have ended, and an engine that also writes lines   *)
(* that are neither Info nor BestMove and bytes that are not UTF-8, and    *)
(* that may close its input; the system may give analyze() no thread.      *)
(***************************************************************************)
\* every earlier call has panicked or its worker has ended
WorkersEnded == \A s \in 1..nsess : rx[s] = "unwound" \/ wpc[s] \in EndedAt

AbortAnalyze == WorkersEnded /\ AnalyzePosition(<<>>, depthArg)

AbortNext ==
    \/ EngineInfo(InfoAt(nlines + 1))
    \/ \E b \in BestMoves : EngineBestMove(b[1], b[2])
    \/ EngineStray(StrayAt(nlines + 1))
    \/ EngineInvalid
    \/ EngineCloseInput
    \/ AbortAnalyze
    \/ AnalyzeGo
    \/ AnalyzeSpawn
    \/ AnalyzeSpawnPanics
    \/ \E s \in Sessions : WorkerReads(s)

SpecAbort == Init /\ [][AbortNext]_vars

(***************************************************************************)
(* Uci::start_engine, uci.rs lines 37-112.  Each action is the code from   *)
(* one blocking read_line to the next, the line the engine answers with    *)
(* being the action's input; the five startup commands are written one     *)
(* send_msg at a time.  After end of file every read returns the empty     *)
(* line.  start_engine ends at "ready" when it returns the handle, at      *)
(* "panicked" at the panic! of line 85 or 110, at "read_failed" at the     *)
(* expect of line 53, 57 or 122 and at "write_failed" at the expect of     *)
(* line 115.                                                               *)
(***************************************************************************)
\* lines an engine may print while it starts: text that is no UCI message
\* without and with the substring "id " in it, UCI messages, and bytes
\* that are not UTF-8
HsLineKinds == {"banner", "banner_id", "id", "option", "uciok", "readyok", "invalid"}

HsLines == IF hEof THEN {EofLine} ELSE {Line(k) : k \in HsLineKinds} \cup {EofLine}

\* a search that finds "id " in every line
ContainsId_Always(line) == TRUE

\* line 55: msg_buffer.find("id ")
ContainsId(line) == line.kind \in {"id", "banner_id"}

\* line 62: the slice of the line from the "id " on: the id message itself,
\* or the rest of a text that is no UCI message
FromId(line) ==
    IF line.kind = "banner_id" THEN [line EXCEPT !.kind = "unknown"] ELSE line

Wrote(c) == [op |-> "write", x |-> c.cmd, name |-> c.name]

HasRead(line) == [op |-> "read", x |-> line.kind, name |-> ""]

\* the log after a read; reads at end of file repeat and are logged once
LogRead(log, line) ==
    IF hEof THEN log ELSE Append(log, HasRead(line))

ReadsSoFar == Len(SelectSeq(hlog, LAMBDA e : e.op = "read"))

\* read_line, lines 53, 57 and 122: it returns a line, the empty line at
\* end of file, or Err on bytes that are not UTF-8
HsRead(line) ==
    /\ line \in HsLines
    /\ hEof \/ ReadsSoFar < MaxHsLines
    /\ hEof' = (line = EofLine)
    /\ UNCHANGED stdinClosed

\* expect("Error reading") panics: start_engine ends without a handle
HsReadPanics(line) ==
    /\ hpc' = "read_failed"
    /\ hlog' = LogRead(hlog, line)
    /\ UNCHANGED <<hmsg, written>>

\* expect("Error writing") panics: the command is not written
HsSendPanics(log) ==
    /\ hpc' = "write_failed"
    /\ hlog' = log
    /\ UNCHANGED written

\* the engine closes its input while it is started
HsEngineCloseInput ==
    /\ hpc \in {"start", "banner", "uciok", "ready1", "startup", "ready2"}
    /\ ~stdinClosed
    /\ stdinClosed' = TRUE
    /\ UNCHANGED <<written, hpc, hmsg, hlog, hEof>>
    /\ UNCHANGED <<engPos, eng, nlines, stdout, stdinLock, stdoutLock,
                   depthArg, nsess, aargs, wpc, readLog, chan, rx>>
    /\ UNCHANGED progVars

\* the state in which start_engine is called
HsInit ==
    /\ written = <<>>
    /\ engPos = 0
    /\ eng = EngineIdle
    /\ nlines = 0
    /\ stdout = <<>>
    /\ stdinLock = "free"
    /\ stdoutLock = "free"
    /\ depthArg = None
    /\ nsess = 0
    /\ aargs = <<>>
    /\ wpc = [s \in Sessions |-> "none"]
    /\ readLog = [s \in Sessions |-> <<>>]
    /\ chan = [s \in Sessions |-> <<>>]
    /\ rx = [s \in Sessions |-> "none"]
    /\ hpc = "start"
    /\ hmsg = Msg("None")
    /\ hlog = <<>>
    /\ hEof = FALSE
    /\ stdinClosed = FALSE
    /\ cpc = "free"
    /\ drained = 0
    /\ rcvd = [s \in Sessions |-> 0]
    /\ best_moves = EmptyMap
    /\ best_responses = EmptyMap
    /\ proposed = ""
    /\ logDebug = FALSE
    /\ result = None
    /\ notation = None

sessionVars == <<engPos, eng, nlines, stdout, stdinLock, stdoutLock,
                 depthArg, nsess, aargs, wpc, readLog, chan, rx>>

\* line 48: the Uci command
HsSendUci ==
    /\ hpc = "start"
    /\ IF SendFails
       THEN HsSendPanics(hlog)
       ELSE /\ written' = Append(written, Cmd("Uci"))
            /\ hlog' = Append(hlog, Wrote(Cmd("Uci")))
            /\ hpc' = "banner"
    /\ UNCHANGED <<hmsg, hEof, stdinClosed>>
    /\ UNCHANGED <<sessionVars, progVars>>

\* lines 53-62: lines are read and dropped until one holds "id "; that one
\* is decoded from the "id " on
HsReadBanner(line) ==
    /\ hpc = "banner"
    /\ HsRead(line)
    /\ IF ReadFails(line)
       THEN HsReadPanics(line)
       ELSE /\ hlog' = LogRead(hlog, line)
            /\ IF ContainsId(line)
               THEN /\ hmsg' = parse_one(FromId(line))
                    /\ hpc' = "uciok"
               ELSE /\ UNCHANGED <<hmsg, hpc>>
            /\ UNCHANGED written
    /\ UNCHANGED <<sessionVars, progVars>>

\* lines 64-79: messages are read until one is UciOk; then IsReady is sent
HsAwaitUciOk(line) ==
    /\ hpc = "uciok"
    /\ hmsg.type # "UciOk"
    /\ HsRead(line)
    /\ IF ReadFails(line)
       THEN HsReadPanics(line)
       ELSE /\ hmsg' = parse_one(line)
            /\ IF parse_one(line).type # "UciOk"
               THEN /\ hlog' = LogRead(hlog, line)
                    /\ UNCHANGED <<written, hpc>>
               ELSE IF SendFails
               THEN HsSendPanics(LogRead(hlog, line))
               ELSE /\ written' = Append(written, Cmd("IsReady"))
                    /\ hlog' = Append(LogRead(hlog, line), Wrote(Cmd("IsReady")))
                    /\ hpc' = "ready1"
    /\ UNCHANGED <<sessionVars, progVars>>

\* a handshake that takes any answer to IsReady
IsReadyOk_Any(msg) == TRUE

\* lines 84 and 104: the answer to IsReady is ReadyOk
IsReadyOk(msg) == msg.type = "ReadyOk"

\* the options in another order
StartupCommands_AnalyseModeFirst ==
    << Cmd("UciNewGame"),
       SetOption("UCI_AnalyseMode", "true"),
       SetOption("Threads", ThreadsValue),
       SetOption("MultiPV", MultiPvValue),
       Cmd("IsReady") >>

\* lines 89-101: what is sent after the first ReadyOk
StartupCommands ==
    << Cmd("UciNewGame"),
       SetOption("Threads", ThreadsValue),
       SetOption("UCI_AnalyseMode", "true"),
       SetOption("MultiPV", MultiPvValue),
       Cmd("IsReady") >>

WroteAll(cmds) == [i \in 1..Len(cmds) |-> Wrote(cmds[i])]

\* lines 80-86: the answer to the first IsReady; anything but ReadyOk
\* panics, ReadyOk is followed by the startup commands
HsFirstReady(line) ==
    /\ hpc = "ready1"
    /\ HsRead(line)
    /\ IF ReadFails(line)
       THEN HsReadPanics(line)
       ELSE /\ hmsg' = parse_one(line)
            /\ hlog' = LogRead(hlog, line)
            /\ hpc' = IF IsReadyOk(parse_one(line)) THEN "startup" ELSE "panicked"
            /\ UNCHANGED written
    /\ UNCHANGED <<sessionVars, progVars>>

\* the startup commands start_engine has written
StartupSent == Len(written) - Len(<<Cmd("Uci"), Cmd("IsReady")>>)

\* lines 89-101, one send_msg at a time: the engine may close its input
\* between any two of the five, and the first write after that panics with
\* the commands before it written
HsSendStartup ==
    /\ hpc = "startup"
    /\ IF SendFails
       THEN HsSendPanics(hlog)
       ELSE LET c == StartupCommands[StartupSent + 1] IN
            /\ written' = Append(written, c)
            /\ hlog' = Append(hlog, Wrote(c))
            /\ hpc' = IF StartupSent + 1 = Len(StartupCommands) THEN "ready2" ELSE "startup"
    /\ UNCHANGED <<hmsg, hEof, stdinClosed>>
    /\ UNCHANGED <<sessionVars, progVars>>

\* lines 102-111: the answer to the second IsReady; ReadyOk returns the
\* handle, anything else panics
HsSecondReady(line) ==
    /\ hpc = "ready2"
    /\ HsRead(line)
    /\ IF ReadFails(line)
       THEN HsReadPanics(line)
       ELSE /\ hmsg' = parse_one(line)
            /\ hlog' = LogRead(hlog, line)
            /\ hpc' = IF IsReadyOk(parse_one(line)) THEN "ready" ELSE "panicked"
            /\ UNCHANGED written
    /\ UNCHANGED <<sessionVars, progVars>>

HsNext ==
    \/ HsSendUci
    \/ HsEngineCloseInput
    \/ \E k \in HsLineKinds \cup {"eof"} : HsReadBanner(Line(k))
    \/ \E k \in HsLineKinds \cup {"eof"} : HsAwaitUciOk(Line(k))
    \/ \E k \in HsLineKinds \cup {"eof"} : HsFirstReady(Line(k))
    \/ HsSendStartup
    \/ \E k \in HsLineKinds \cup {"eof"} : HsSecondReady(Line(k))

SpecHandshake == HsInit /\ [][HsNext]_vars

\* start_engine runs on: it is never suspended for good while a read of it
\* can return
SpecHandshakeFair == HsInit /\ [][HsNext]_vars /\ WF_vars(HsNext)

(***************************************************************************)
(* Consumers of a session's receiver.  `for analysis in rx` takes the      *)
(* events in order and ends when the channel is empty and its sender, which*)
(* the worker thread owns, is gone.                                        *)
(***************************************************************************)
\* the worker thread of session s has ended, through `break` or a panic
Ended(s) == wpc[s] \in EndedAt

\* Receiver::recv yields the next event
CanRecv(s) == rcvd[s] < Len(chan[s])

NextEvent(s) == chan[s][rcvd[s] + 1]

\* Receiver::recv fails: the iteration is over
Disconnected(s) == rcvd[s] = Len(chan[s]) /\ Ended(s)

\* the variables a consumer leaves alone
consumerFrame == <<written, stdinLock, stdoutLock, engineVars, callerVars, workerVars, rx>>

(***************************************************************************)
(* analyze_test, uci.rs lines 331-353: two sessions, one after the other,  *)
(* at depth 7, each drained by a for loop.  The engine answers a Go with   *)
(* Info lines and one BestMove.                                            *)
(***************************************************************************)
TestCalls == 2

TestInit ==
    /\ written = HandshakeCommands
    /\ engPos = Len(HandshakeCommands)
    /\ eng = EngineIdle
    /\ nlines = 0
    /\ stdout = <<>>
    /\ stdinLock = "free"
    /\ stdoutLock = "free"
    /\ depthArg = Some(TestDepth)
    /\ nsess = 0
    /\ aargs = <<>>
    /\ wpc = [s \in Sessions |-> "none"]
    /\ readLog = [s \in Sessions |-> <<>>]
    /\ chan = [s \in Sessions |-> <<>>]
    /\ rx = [s \in Sessions |-> "none"]
    /\ hpc = "ready"
    /\ hmsg = Msg("ReadyOk")
    /\ hlog = <<>>
    /\ hEof = FALSE
    /\ stdinClosed = FALSE
    /\ cpc = "test"
    /\ drained = 0
    /\ rcvd = [s \in Sessions |-> 0]
    /\ best_moves = EmptyMap
    /\ best_responses = EmptyMap
    /\ proposed = ""
    /\ logDebug = TRUE
    /\ result = None
    /\ notation = None

\* lines 338 and 346: uci.analyze(&game, vec![], Some(7)), up to the Position
TestAnalyze ==
    /\ cpc = "test"
    /\ drained = nsess
    /\ nsess < TestCalls
    /\ AnalyzePosition(<<>>, Some(TestDepth))

\* lines 340-344 and 348-352: one turn of the for loop
TestRecv ==
    /\ cpc = "test"
    /\ drained < nsess
    /\ CanRecv(nsess)
    /\ rcvd' = [rcvd EXCEPT ![nsess] = @ + 1]
    /\ UNCHANGED <<cpc, drained, best_moves, best_responses, proposed, logDebug, result, notation>>
    /\ UNCHANGED consumerFrame
    /\ UNCHANGED hsVars

\* the for loop ends
TestDrained ==
    /\ cpc = "test"
    /\ drained < nsess
    /\ Disconnected(nsess)
    /\ drained' = drained + 1
    /\ cpc' = IF drained + 1 = TestCalls THEN "test_done" ELSE "test"
    /\ UNCHANGED <<rcvd, best_moves, best_responses, proposed, logDebug, result, notation>>
    /\ UNCHANGED consumerFrame
    /\ UNCHANGED hsVars

TestCaller == TestAnalyze \/ AnalyzeGo \/ AnalyzeSpawn \/ TestRecv \/ TestDrained

TestEngineInfo == \E i \in 1..MaxLines : EngineInfo(InfoAt(i))

TestEngineBestMove == \E b \in BestMoves : EngineBestMove(b[1], b[2])

TestNext ==
    \/ TestEngineInfo
    \/ TestEngineBestMove
    \/ TestAnalyze
    \/ AnalyzeGo
    \/ AnalyzeSpawn
    \/ TestRecv
    \/ TestDrained
    \/ \E s \in Sessions : WorkerReads(s)

\* the threads are scheduled, and the engine ends a search it has started
TestFairness ==
    /\ WF_vars(TestCaller)
    /\ \A s \in Sessions : WF_vars(WorkerReads(s))
    /\ WF_vars(TestEngineBestMove)

SpecTest == TestInit /\ [][TestNext]_vars /\ TestFairness

(***************************************************************************)
(* Uci::check_for_blunder, uci.rs lines 245-295.  The engine is any        *)
(* engine: its Info lines may lack a pv, a multipv or a score, and it may  *)
(* emit a line that is neither Info nor BestMove.                          *)
(***************************************************************************)
BlunderDepth == 18

\* the Info messages of the engine
BlunderInfos ==
    { <<Depth(1), ScoreCp(20), MultiPv(1), Pv(<<"e2e4", "e7e5">>)>>,
      <<Depth(1), ScoreCp(-5), MultiPv(2), Pv(<<"d2d4">>)>>,
      <<Depth(2), MultiPv(2), ScoreCp(20), Pv(<<"g1f3">>)>>,
      <<Depth(1), NodesAttr>>,
      <<Depth(1), MultiPv(2), ScoreCp(-5)>> }

\* the moves proposed: the engine's first choice, and the move of
\* check_for_blunder_test
ProposedMoves == {"e2e4", "b1b3"}

\* a map that keeps the entry it has
Insert_KeepFirst(m, k, v) == [x \in DOMAIN m \cup {k} |-> IF x \in DOMAIN m THEN m[x] ELSE v]

\* HashMap::insert
Insert(m, k, v) == [x \in DOMAIN m \cup {k} |-> IF x = k THEN v ELSE m[x]]

\* `if let Analysis::PossibleMove(pm) = analysis { map.insert(pm.multi_pv, pm) }`
Fold(m, ev) == IF ev.type = "PossibleMove" THEN Insert(m, ev.pm.multi_pv, ev.pm) ELSE m

\* pm.moves[0] is out of bounds for an entry of the map
IndexTraps(m) == \E k \in DOMAIN m : m[k].moves = <<>>

\* a reduction that puts the highest score first
Ranked_Descending(m) ==
    LET n == Cardinality(DOMAIN m)
        Orders == { o \in [1..n -> DOMAIN m] :
                      \A i, j \in 1..n :
                          i < j => /\ o[i] # o[j]
                                   /\ m[o[i]].score >= m[o[j]].score }
    IN  { [i \in 1..n |-> [score |-> m[o[i]].score, mv |-> m[o[i]].moves[1]]] :
          o \in Orders }

\* lines 256-261: the entries as (score, moves[0]), sorted by score with a
\* stable sort; into_iter() visits the entries of a HashMap in any order,
\* so entries of equal score come out in any order
Ranked(m) ==
    LET n == Cardinality(DOMAIN m)
        Orders == { o \in [1..n -> DOMAIN m] :
                      \A i, j \in 1..n :
                          i < j => /\ o[i] # o[j]
                                   /\ m[o[i]].score <= m[o[j]].score }
    IN  { [i \in 1..n |-> [score |-> m[o[i]].score, mv |-> m[o[i]].moves[1]]] :
          o \in Orders }

\* line 267: best_moves.iter().any(|(score, mv)| *mv == proposed_move)
AnyMatches(list, mv) == \E i \in DOMAIN list : list[i].mv = mv

\* a verdict that reports a blunder whenever alternatives are returned
Returned_BlunderWithAlternatives(b, list) ==
    Some([isBlunder |-> list # <<>>, alternatives |-> list])

\* the returned pair (bool, Vec<(i32, ChessMove)>)
Returned(b, list) == Some([isBlunder |-> b, alternatives |-> list])

BlunderInit ==
    /\ written = HandshakeCommands
    /\ engPos = Len(HandshakeCommands)
    /\ eng = EngineIdle
    /\ nlines = 0
    /\ stdout = <<>>
    /\ stdinLock = "free"
    /\ stdoutLock = "free"
    /\ depthArg = Some(BlunderDepth)
    /\ nsess = 0
    /\ aargs = <<>>
    /\ wpc = [s \in Sessions |-> "none"]
    /\ readLog = [s \in Sessions |-> <<>>]
    /\ chan = [s \in Sessions |-> <<>>]
    /\ rx = [s \in Sessions |-> "none"]
    /\ hpc = "ready"
    /\ hmsg = Msg("ReadyOk")
    /\ hlog = <<>>
    /\ hEof = FALSE
    /\ stdinClosed = FALSE
    /\ cpc = "first"
    /\ drained = 0
    /\ rcvd = [s \in Sessions |-> 0]
    /\ best_moves = EmptyMap
    /\ best_responses = EmptyMap
    /\ proposed \in ProposedMoves
    /\ logDebug \in BOOLEAN
    /\ result = None
    /\ notation = None

\* line 247: self.analyze(game, vec![], Some(depth)), up to the Position
BlunderAnalyzeFirst ==
    /\ cpc = "first"
    /\ nsess = 0
    /\ AnalyzePosition(<<>>, depthArg)

\* lines 250-254: one turn of the first for loop
BlunderRecvFirst ==
    /\ cpc = "first"
    /\ nsess = 1
    /\ CanRecv(1)
    /\ rcvd' = [rcvd EXCEPT ![1] = @ + 1]
    /\ best_moves' = Fold(best_moves, NextEvent(1))
    /\ UNCHANGED <<cpc, drained, best_responses, proposed, logDebug, result, notation>>
    /\ UNCHANGED consumerFrame
    /\ UNCHANGED hsVars

\* lines 254-269: the first for loop ends; the map becomes the sorted list,
\* and a list that holds the proposed move is returned
BlunderRankFirst ==
    /\ cpc = "first"
    /\ nsess = 1
    /\ Disconnected(1)
    /\ drained' = 1
    /\ IF IndexTraps(best_moves)
       THEN cpc' = "panicked" /\ result' = result
       ELSE \E list \in Ranked(best_moves) :
              IF AnyMatches(list, proposed)
              THEN cpc' = "returned" /\ result' = Returned(FALSE, list)
              ELSE cpc' = "second" /\ result' = result
    /\ UNCHANGED <<rcvd, best_moves, best_responses, proposed, logDebug, notation>>
    /\ UNCHANGED consumerFrame
    /\ UNCHANGED hsVars

\* line 272: self.analyze(game, vec![proposed_move], Some(depth))
BlunderAnalyzeSecond ==
    /\ cpc = "second"
    /\ nsess = 1
    /\ AnalyzePosition(<<proposed>>, depthArg)

\* lines 275-279: one turn of the second for loop
BlunderRecvSecond ==
    /\ cpc = "second"
    /\ nsess = 2
    /\ CanRecv(2)
    /\ rcvd' = [rcvd EXCEPT ![2] = @ + 1]
    /\ best_responses' = Fold(best_responses, NextEvent(2))
    /\ UNCHANGED <<cpc, drained, best_moves, proposed, logDebug, result, notation>>
    /\ UNCHANGED consumerFrame
    /\ UNCHANGED hsVars

\* lines 279-294: the second for loop ends; debug! evaluates mv.moves[0]
\* when the debug level is enabled; the least score is taken with expect;
\* the function returns (false, vec![])
BlunderReturn ==
    /\ cpc = "second"
    /\ nsess = 2
    /\ Disconnected(2)
    /\ drained' = 2
    /\ IF (logDebug /\ IndexTraps(best_responses)) \/ DOMAIN best_responses = {}
       THEN cpc' = "panicked" /\ result' = result
       ELSE cpc' = "returned" /\ result' = Returned(FALSE, <<>>)
    /\ UNCHANGED <<rcvd, best_moves, best_responses, proposed, logDebug, notation>>
    /\ UNCHANGED consumerFrame
    /\ UNCHANGED hsVars

BlunderNext ==
    \/ \E attrs \in BlunderInfos : EngineInfo(attrs)
    \/ \E b \in BestMoves : EngineBestMove(b[1], b[2])
    \/ EngineStray(StrayAt(nlines + 1))
    \/ BlunderAnalyzeFirst
    \/ BlunderAnalyzeSecond
    \/ AnalyzeGo
    \/ AnalyzeSpawn
    \/ BlunderRecvFirst
    \/ BlunderRankFirst
    \/ BlunderRecvSecond
    \/ BlunderReturn
    \/ \E s \in Sessions : WorkerReads(s)

SpecBlunder == BlunderInit /\ [][BlunderNext]_vars

(***************************************************************************)
(* to_notation, chess_utils.rs lines 5-86.  A square is <<file, rank>>,    *)
(* both 1..8; a piece is the letter Piece::to_string(Color::White) gives.  *)
(* What the chess crate computes from the board is an argument of the      *)
(* call: the piece on the source, the status of the board, whether a       *)
(* piece is on the destination, the checkers, and the source squares of    *)
(* the legal moves to the destination by pieces of the moving kind.        *)
(***************************************************************************)
FileLetters == <<"a", "b", "c", "d", "e", "f", "g", "h">>

RankDigits == <<"1", "2", "3", "4", "5", "6", "7", "8">>

\* Display of Square
SquareText(sq) == FileLetters[sq[1]] \o RankDigits[sq[2]]

\* Display of Piece: the lower-case letter
PieceText(p) ==
    CASE p = "P" -> "p" [] p = "N" -> "n" [] p = "B" -> "b"
      [] p = "R" -> "r" [] p = "Q" -> "q" [] OTHER -> "k"

\* Display of ChessMove: source, destination, promotion
MoveText(q) ==
    SquareText(q.source) \o SquareText(q.dest) \o
    (IF IsSome(q.promotion) THEN PieceText(q.promotion[1]) ELSE "")

\* line 50: some file counts more than one of the squares
SameFile(S) == \E a, b \in S : a # b /\ a[1] = b[1]

\* line 52: some rank counts more than one of the squares
SameRank(S) == \E a, b \in S : a # b /\ a[2] = b[2]

\* lines 49-63, S the squares of file_rank_same_pieces after sort and dedup
Disambiguation(q) ==
    IF Cardinality(q.sources) > 1
    THEN IF SameFile(q.sources)
         THEN IF SameRank(q.sources)
              THEN SquareText(q.source)
              ELSE RankDigits[q.source[2]]
         ELSE FileLetters[q.source[1]]
    ELSE ""

\* lines 79-83
CheckSuffix(q) ==
    IF q.status = "Checkmate" THEN "#"
    ELSE IF q.checkers > 0 THEN "+"
    ELSE ""

to_notation(q) ==
    IF q.piece = None THEN MoveText(q)
    ELSE IF q.status = "Stalemate" THEN "(=)"
    ELSE (IF q.piece[1] = "P" THEN "" ELSE q.piece[1])
         \o Disambiguation(q)
         \o (IF q.destPiece THEN "x" ELSE "")
         \o SquareText(q.dest)
         \o (IF IsSome(q.promotion) THEN "=" \o q.promotion[1] ELSE "")
         \o CheckSuffix(q)

\* the arguments of a call
Query(piece, source, dest, sources) ==
    [piece |-> piece, source |-> source, dest |-> dest, sources |-> sources,
     destPiece |-> FALSE, enPassant |-> FALSE, promotion |-> None,
     status |-> "Ongoing", checkers |-> 0]

\* the queens of the board of the test (lines 95-109) on h1, e4 and h4: a
\* queen, rook or knight moves or captures, and any of the others can reach
\* the destination too
OfficerQueries ==
    { [Query(Some(p), src, <<5, 1>>, S \cup {src}) EXCEPT !.destPiece = c, !.checkers = k] :
        p \in {"Q", "R", "N"},
        src \in {<<8, 1>>, <<5, 4>>, <<8, 4>>},
        S \in SUBSET {<<8, 1>>, <<5, 4>>, <<8, 4>>},
        c \in BOOLEAN,
        k \in {0, 1} }

\* a pawn on c5 or e5 takes on d6, a piece standing there or en passant,
\* with or without a second pawn that can take there too
PawnCaptures ==
    { [Query(Some("P"), src, <<4, 6>>, S \cup {src}) EXCEPT !.destPiece = ~ep, !.enPassant = ep] :
        src \in {<<3, 5>>, <<5, 5>>},
        S \in SUBSET {<<3, 5>>, <<5, 5>>},
        ep \in BOOLEAN }

\* the pawn on a7 promotes on a8 (line 119) or takes on b8 and promotes
PawnPromotions ==
    { [Query(Some("P"), <<1, 7>>, <<f, 8>>, {<<1, 7>>}) EXCEPT
            !.destPiece = (f = 2), !.promotion = Some(pr)] :
        f \in {1, 2}, pr \in {"Q", "N"} }

\* a source square without a piece, a stalemate, a checkmate
OtherQueries ==
    { Query(None, <<5, 2>>, <<5, 4>>, {}),
      [Query(None, <<1, 7>>, <<1, 8>>, {}) EXCEPT !.promotion = Some("Q")],
      [Query(Some("K"), <<3, 6>>, <<3, 5>>, {}) EXCEPT !.status = "Stalemate"],
      [Query(Some("Q"), <<8, 4>>, <<8, 6>>, {<<8, 4>>}) EXCEPT !.status = "Checkmate", !.checkers = 1] }

NotationQueries == OfficerQueries \cup PawnCaptures \cup PawnPromotions \cup OtherQueries

\* to_notation is called
NotationCall(q) ==
    /\ notation = None
    /\ notation' = Some([q |-> q, ret |-> None])
    /\ UNCHANGED <<cpc, drained, rcvd, best_moves, best_responses, proposed, logDebug, result>>
    /\ UNCHANGED consumerFrame
    /\ UNCHANGED hsVars

\* and returns its String
NotationReturn ==
    /\ notation # None
    /\ notation[1].ret = None
    /\ notation' = Some([notation[1] EXCEPT !.ret = Some(to_notation(notation[1].q))])
    /\ UNCHANGED <<cpc, drained, rcvd, best_moves, best_responses, proposed, logDebug, result>>
    /\ UNCHANGED consumerFrame
    /\ UNCHANGED hsVars

NotationNext ==
    \/ \E q \in NotationQueries : NotationCall(q)
    \/ NotationReturn

SpecNotation == Init /\ [][NotationNext]_vars

(***************************************************************************)
(* Properties of the sessions.                                             *)
(***************************************************************************)
BestMovesIn(ch) == {i \in DOMAIN ch : ch[i].type = "BestMove"}

Infos(lines) == SelectSeq(lines, LAMBDA l : l.kind = "info")

CandidateLines(ch) == SelectSeq(ch, LAMBDA e : e.type = "PossibleMove")

StopsOf(s) == {i \in DOMAIN written : written[i].cmd = "Stop" /\ written[i].sess = s}

Gos == {i \in DOMAIN written : written[i].cmd = "Go"}

BestMovesRead == {<<s, i>> \in Sessions \X (1..(MaxLines + MaxSessions)) :
                    i <= Len(readLog[s]) /\ readLog[s][i].kind = "bestmove"}

\* lines the search of session s has produced or may still produce that
\* nobody has read
Outstanding(s) ==
    \/ \E i \in DOMAIN stdout : stdout[i].sess = s
    \/ eng.st = "searching" /\ eng.sess = s

\* C1 as stated: the stream of every session, once closed with its receiver
\* alive, ends with exactly one BestMove.
C1_EveryStreamEndsWithBestMove ==
    \A s \in Sessions :
        Ended(s) /\ rx[s] = "alive" =>
            /\ chan[s] # <<>>
            /\ BestMovesIn(chan[s]) = {Len(chan[s])}

\* C1 amended: a stream holds at most one BestMove and nothing after it; a
\* stream closed by a worker that left its loop, the receiver alive, ends
\* with that BestMove; a stream closed by a worker that aborted on a
\* message outside {Info, BestMove} holds no BestMove.
C1_BestMoveIsLast ==
    \A s \in Sessions :
        /\ BestMovesIn(chan[s]) \subseteq {Len(chan[s])}
        /\ wpc[s] = "done" /\ rx[s] = "alive" => BestMovesIn(chan[s]) = {Len(chan[s])}
        /\ wpc[s] = "panicked" => BestMovesIn(chan[s]) = {}
        /\ BestMovesIn(chan[s]) # {} => wpc[s] = "done"

C1_Witness ==
    \E s \in Sessions :
        /\ wpc[s] = "done" /\ rx[s] = "alive"
        /\ Len(chan[s]) >= 2
        /\ chan[s][1].type = "PossibleMove"
        /\ Last(chan[s]).type = "BestMove"

\* the lines the worker of session s has read and taken through its
\* match: all it has read, but for the one it has just decoded
Matched(s) ==
    IF wpc[s] = "decoded"
    THEN SubSeq(readLog[s], 1, Len(readLog[s]) - 1)
    ELSE readLog[s]

\* C2: while its receiver is alive, the candidate lines a worker has sent
\* are the Info messages it has read and matched, one each, in the order
\* read.
C2_OneCandidateLinePerInfo ==
    \A s \in Sessions :
        rx[s] = "alive" =>
            /\ Len(CandidateLines(chan[s])) = Len(Infos(Matched(s)))
            /\ \A i \in 1..Len(Infos(Matched(s))) :
                  CandidateLines(chan[s])[i].pm = ToPossibleMove(Infos(Matched(s))[i].attrs)

C2_Witness ==
    \E s \in Sessions :
        /\ rx[s] = "alive"
        /\ Len(Infos(readLog[s])) >= 2
        /\ Infos(readLog[s])[1] # Infos(readLog[s])[2]
        /\ Len(CandidateLines(chan[s])) = 2

\* C3 as stated: a session whose receiver was dropped before its BestMove
\* was read has had exactly one Stop written once its worker has ended
\* at a BestMove.
C3_ExactlyOneStop ==
    \A s \in Sessions :
        rx[s] = "dropped" /\ wpc[s] = "done" => Cardinality(StopsOf(s)) = 1

\* C8 as stated: no Go is written while an earlier Go has not been answered
\* by a BestMove that a worker has read.
C8_OneGoInFlight ==
    Cardinality(Gos) - Cardinality(BestMovesRead) <= 1

\* C9 as stated: a worker whose receiver was dropped stops reading only
\* when it has read a BestMove, and never while lines of its own search are
\* outstanding.
C9_StopsReadingOnlyAtOwnBestMove ==
    \A s \in Sessions :
        rx[s] = "dropped" /\ wpc[s] \in {"done", "panicked"} =>
            /\ Last(readLog[s]).kind = "bestmove"
            /\ ~Outstanding(s)

\* C9 amended: a worker whose receiver was dropped goes on reading after
\* every failed publish of a candidate line; it breaks out of its loop only
\* when it has read a BestMove (the first one it reads, whichever search it
\* answers), and otherwise stops reading only by aborting on a message
\* outside {Info, BestMove} or by a panic on a failed read, a failed write
\* of its Stop or a poisoned lock.
C9_DrainsUntilBestMove ==
    \A s \in Sessions :
        rx[s] = "dropped" =>
            /\ \A i \in 1..(Len(readLog[s]) - 1) : readLog[s][i].kind = "info"
            /\ wpc[s] = "done" => Last(readLog[s]).kind = "bestmove"
            /\ wpc[s] = "panicked" => ~Publishable(parse_one(Last(readLog[s])))
            /\ wpc[s] = "read" => \A i \in DOMAIN readLog[s] : readLog[s][i].kind = "info"
            /\ wpc[s] \in {"read_failed", "stdout_poisoned"} => stdoutLock = "poisoned"
            /\ wpc[s] \in {"write_failed", "stdin_poisoned"} =>
                  /\ stdinLock = "poisoned"
                  /\ stdinClosed
                  /\ Publishable(parse_one(Last(readLog[s])))

C9_Witness ==
    \E s \in Sessions :
        /\ rx[s] = "dropped"
        /\ wpc[s] = "done"
        /\ Len(readLog[s]) >= 2
        /\ Cardinality(StopsOf(s)) >= 2

\* C10: a message outside {Info, BestMove} is the last line its worker
\* reads: once the match has reached it the worker has aborted, it has
\* published no event for it or after it, and its stream holds no BestMove.
C10_AbortOnUnexpectedMessage ==
    \A s \in Sessions :
        \A i \in DOMAIN readLog[s] :
            ~Publishable(parse_one(readLog[s][i])) =>
                /\ i = Len(readLog[s])
                /\ wpc[s] = IF i \in DOMAIN Matched(s) THEN "panicked" ELSE "decoded"
                /\ Len(chan[s]) <= i - 1
                /\ BestMovesIn(chan[s]) = {}

C10_Witness ==
    \E s \in Sessions :
        /\ wpc[s] = "panicked"
        /\ Len(readLog[s]) >= 2
        /\ chan[s] # <<>>
        /\ stdout # <<>>

\* the bestmove lines the worker of session s has read
BestMoveLinesRead(s) == SelectSeq(readLog[s], LAMBDA l : l.kind = "bestmove")

\* C20: the BestMove event delivered to the consumer carries the best move
\* and the optional ponder move of the engine's bestmove message.
C20_BestMoveCarriesPonder ==
    \A s \in Sessions :
        \A i \in BestMovesIn(chan[s]) :
            /\ chan[s][i].mv = BestMoveLinesRead(s)[1].mv
            /\ "ponder" \in DOMAIN chan[s][i]
            /\ chan[s][i].ponder = BestMoveLinesRead(s)[1].ponder

\* what the event does carry: the best move, and no other field that could
\* hold the ponder move
C20_BestMoveCarriesMoveOnly ==
    \A s \in Sessions :
        \A i \in BestMovesIn(chan[s]) :
            /\ chan[s][i].mv = BestMoveLinesRead(s)[1].mv
            /\ chan[s][i].pm = PossibleMoveDefault
            /\ DOMAIN chan[s][i] = {"type", "pm", "mv"}

\* the sessions that have a worker thread
Workers == {s \in Sessions : wpc[s] # "none"}

\* the calls of analyze() that have returned a receiver
Returned_Calls == {s \in 1..nsess : rx[s] \notin {"none", "unwound"}}

\* the line a read returns
NextLine == IF stdout # <<>> THEN Head(stdout) ELSE EofLine

\* C22: each call of analyze() that returns spawns exactly one worker and
\* returns the receiver without reading engine output on the calling
\* thread: the steps of analyze() leave the output and what has been read
\* of it alone, the steps that write its commands add no worker, the step
\* that returns the receiver adds one worker, and every line that leaves
\* the engine's output is read by a worker that is in its loop and holds
\* the guard of the output.
C22_OneWorkerPerCall ==
    [][ /\ Workers = Returned_Calls
        /\ (aargs' # aargs \/ nsess' # nsess \/ Returned_Calls' # Returned_Calls) =>
              /\ stdout' = stdout
              /\ readLog' = readLog
        /\ nsess' # nsess =>
              /\ nsess' = nsess + 1
              /\ rx'[nsess + 1] \in {"none", "unwound"}
              /\ Workers' = Workers
        /\ \A s \in Sessions : (rx[s] = "none" /\ rx'[s] = "alive") =>
              /\ s = nsess
              /\ Workers' = Workers \cup {s}
              /\ wpc'[s] = "read"
        /\ (Len(stdout') < Len(stdout) \/ readLog' # readLog) =>
              \E s \in Workers :
                  /\ wpc[s] = "locked"
                  /\ stdoutLock = Thread(s)
                  /\ \/ readLog' = [readLog EXCEPT ![s] = Append(@, NextLine)]
                     \/ NextLine = InvalidLine /\ readLog' = readLog
                  /\ stdout' = IF stdout # <<>> THEN Tail(stdout) ELSE stdout ]_vars

\* two calls have returned and the worker of each has read a line
C22_Witness ==
    /\ nsess = 2
    /\ Workers = {1, 2}
    /\ readLog[1] # <<>>
    /\ readLog[2] # <<>>

\* the messages the worker of session s has read and had an event for
PublishableRead(s) == SelectSeq(readLog[s], LAMBDA l : Publishable(parse_one(l)))

\* the publishes of the worker of session s that failed
FailedPublishes(s) ==
    Len(SelectSeq(Matched(s), LAMBDA l : Publishable(parse_one(l)))) - Len(chan[s])

\* where a worker is when the Stop for its last failed publish is not
\* written: before the lock of the input or with it, or ended there by a
\* poisoned lock or a failed write
StopPending == {"stop", "stopping", "stdin_poisoned", "write_failed"}

\* C23: a worker writes Stop only right after a publish on its channel has
\* failed: it has written one Stop for each failed publish (the last one
\* may be about to be written), and none while its receiver is alive, so a
\* fixed-depth session drained to its BestMove writes no Stop at all.
C23_StopOnlyAfterFailedPublish ==
    \A s \in Sessions :
        /\ rx[s] # "dropped" => StopsOf(s) = {}
        /\ Cardinality(StopsOf(s)) =
              FailedPublishes(s) - (IF wpc[s] \in StopPending THEN 1 ELSE 0)

\* a session has candidate lines in its stream, its receiver alive and no
\* Stop written; another session was dropped and its worker has written
\* one Stop and reads on
C23_Witness ==
    \E s, u \in Sessions :
        /\ rx[s] = "alive"
        /\ Len(chan[s]) >= 2
        /\ StopsOf(s) = {}
        /\ rx[u] = "dropped"
        /\ wpc[u] = "read"
        /\ Cardinality(StopsOf(u)) = 1

\* the publishes of candidate lines by the worker of session s that failed
FailedCandidatePublishes(s) ==
    Len(Infos(readLog[s])) - Len(CandidateLines(chan[s]))

\* C24: a worker writes no Stop after it has read the BestMove of its
\* session: every Stop it writes follows the failed publish of a candidate
\* line, and with the BestMove read it writes none.
C24_NoStopAfterBestMove ==
    \A s \in Sessions :
        /\ Cardinality(StopsOf(s)) <= FailedCandidatePublishes(s)
        /\ (readLog[s] # <<>> /\ Last(readLog[s]).kind = "bestmove") => wpc[s] # "stop"

GosOf(s) == {i \in Gos : written[i].sess = s}

\* the receiver of session s was dropped and analyze() has not been called
\* since session s began
CancelledBeforeNextCall(s) == rx[s] = "dropped" /\ nsess = s /\ aargs = <<>>

StopsBeforeLaterGos(s) ==
    \A u \in Sessions : s < u => \A i \in StopsOf(s) : \A j \in GosOf(u) : i < j

\* C25: when a session is cancelled by dropping its receiver and analyze()
\* is then called again on the same handle, the Stop of the cancelled
\* session is never written after the Go of the new session.
C25_StopBeforeNextGo ==
    \A s \in Sessions : [](CancelledBeforeNextCall(s) => []StopsBeforeLaterGos(s))

\* the lines the events in the channel of session s were decoded from: the
\* publishes succeed until the receiver is dropped and fail from then on
PublishedLines(s) == SubSeq(PublishableRead(s), 1, Len(chan[s]))

\* C26: every event delivered on the receiver of a session was decoded from
\* a line the engine produced in answer to the Go of that session, also
\* when the sessions overlap.
C26_EventsFromOwnSearch ==
    \A s \in Sessions :
        \A i \in DOMAIN PublishedLines(s) : PublishedLines(s)[i].sess = s

(***************************************************************************)
(* Properties of a session whose engine closes its output.                 *)
(***************************************************************************)
\* the worker of session s has read at end of file
ReadEof(s) == readLog[s] # <<>> /\ Last(readLog[s]) = EofLine

\* the read of the worker of session s has failed or was at end of file,
\* and the worker has dealt with it
ReadFailedOrEof(s) ==
    \/ wpc[s] = "read_failed"
    \/ ReadEof(s) /\ wpc[s] # "decoded"

\* C11: when a read from the engine's output fails or hits end of file
\* during a session, the worker ends the session by delivering an explicit
\* failure sentinel to the consumer: the last event of the stream is one
\* that is neither a candidate line nor a BestMove.
C11_EofDeliversSentinel ==
    \A s \in Sessions :
        (ReadFailedOrEof(s) /\ rx[s] = "alive") =>
            /\ chan[s] # <<>>
            /\ Last(chan[s]).type \notin {"PossibleMove", "BestMove"}

\* the part of C11 that holds: a worker that has read at end of file is at
\* its match or has ended there, so the stream is closed and the
\* consumer's iteration ends
C11_EofEndsWorker ==
    \A s \in Sessions : ReadEof(s) => wpc[s] \in {"decoded", "panicked"}

(***************************************************************************)
(* Properties of the commands of analyze().                                *)
(***************************************************************************)
\* a call of analyze() is between its Position and its Go
InCall == aargs # <<>>

\* the Go the claim asks for: the fixed-depth search control with the depth
\* given, or the infinite time control
ExpectedGo(depth) ==
    [cmd |-> "Go", name |-> "", value |-> None, fen |-> "", moves |-> <<>>,
     depth |-> depth, infinite |-> (depth = None), sess |-> nsess + 1]

\* the Position the claim asks for
ExpectedPosition(moves) ==
    [cmd |-> "Position", name |-> "", value |-> None, fen |-> Fen, moves |-> moves,
     depth |-> None, infinite |-> FALSE, sess |-> nsess + 1]

\* C12: each call of analyze(position, extraMoves, depthLimit) writes
\* exactly two commands: first Position with the FEN of the position and
\* extraMoves in the given order, then Go with the fixed-depth search
\* control of depthLimit when one is given and with the infinite time
\* control when none is; nothing else is written in between.
C12_PositionThenGo ==
    [][ /\ (~InCall /\ InCall') =>
              written' = Append(written, ExpectedPosition(aargs'[1].moves))
        /\ (InCall /\ written' # written) =>
              /\ ~InCall'
              /\ nsess' = nsess + 1
              /\ Last(written) = ExpectedPosition(aargs[1].moves)
              /\ written' = Append(written, ExpectedGo(aargs[1].depth)) ]_vars

\* two calls have been made, one with two moves and a depth, one without
\* a depth
C12_Witness ==
    /\ nsess = 2
    /\ \E i, j \in DOMAIN written :
        /\ written[i].cmd = "Position" /\ Len(written[i].moves) = 2
        /\ written[i + 1].cmd = "Go" /\ written[i + 1].depth = Some(TestDepth)
        /\ written[j].cmd = "Go" /\ written[j].infinite

(***************************************************************************)
(* Properties of a dropped receiver.                                       *)
(***************************************************************************)
\* the receiver of session s was dropped while its worker had not read a
\* BestMove
DroppedBeforeBestMove(s) == rx[s] = "dropped" /\ wpc[s] \in {"read", "stop"}

\* C13: whenever the receiver of a session is dropped before the session's
\* BestMove, in fixed-depth mode and in infinite mode alike, a Stop command
\* is eventually written to the engine.  Runs in which the engine has used
\* up the lines the model grants it, and runs with a further call of
\* analyze(), are left out, so that a run that refutes the formula is one
\* of a single session in which the engine could write and does not.
C13_DropLeadsToStop ==
    \A s \in Sessions :
        (DroppedBeforeBestMove(s) /\ nsess = 1)
            ~> (StopsOf(s) # {} \/ nlines = MaxLines \/ nsess > 1)

\* what the worker does: a Stop is written once it has read a further
\* Info or BestMove line, and not before
C13_StopOnlyAfterRead ==
    \A s \in Sessions :
        StopsOf(s) # {} =>
            /\ rx[s] = "dropped"
            /\ readLog[s] # <<>>
            /\ Last(readLog[s]).kind \in {"info", "bestmove"}

(***************************************************************************)
(* Properties of analyze_test.                                             *)
(***************************************************************************)
\* the consumer has received all of session s, and its last event is the
\* BestMove
DrainedWithBestMove(s) ==
    /\ wpc[s] = "done"
    /\ rcvd[s] = Len(chan[s])
    /\ chan[s] # <<>>
    /\ Last(chan[s]).type = "BestMove"
    /\ BestMovesIn(chan[s]) = {Len(chan[s])}

\* C6: two analyze() calls at a fixed depth on one handle, the first
\* receiver drained before the second call, against an engine that answers
\* each Go with finitely many Info lines and one BestMove: both for loops
\* end, and each session has ended with a BestMove as its last event.
C6_SequentialSessionsTerminate ==
    <>(/\ cpc = "test_done"
       /\ drained = TestCalls
       /\ \A s \in 1..TestCalls : DrainedWithBestMove(s))

\* both sessions have ended, each with candidate lines before its BestMove
C6_Witness ==
    /\ cpc = "test_done"
    /\ \A s \in 1..TestCalls : DrainedWithBestMove(s) /\ Len(chan[s]) > 1

\* C27: a worker reads nothing after it has read a BestMove, so with each
\* session started only after the BestMove of the one before was received,
\* a worker reads no line of a later session: the lines a worker has read
\* are those of its own search, a BestMove is the last of them, and a worker
\* that has read one is at its match with it or has left its loop.
C27_NoReadAfterBestMove ==
    \A s \in Sessions :
        /\ \A i \in DOMAIN readLog[s] :
              /\ readLog[s][i].sess = s
              /\ readLog[s][i].kind = "bestmove" => i = Len(readLog[s])
        /\ BestMoveLinesRead(s) # <<>> =>
              wpc[s] = IF Matched(s) = readLog[s] THEN "done" ELSE "decoded"

\* the second session has produced lines after the first worker read its
\* BestMove, and the second worker has read them
C27_Witness ==
    /\ nsess = TestCalls
    /\ wpc[1] = "done"
    /\ Last(readLog[1]).kind = "bestmove"
    /\ Len(readLog[2]) >= 2
    /\ Last(readLog[2]).kind = "bestmove"

(***************************************************************************)
(* Properties of check_for_blunder.                                        *)
(***************************************************************************)
\* the first for loop has ended
FirstSessionFolded == drained >= 1

\* the proposed move is the first move of a candidate line retained from
\* the first session
MatchesRetained ==
    \E k \in DOMAIN best_moves :
        /\ best_moves[k].moves # <<>>
        /\ best_moves[k].moves[1] = proposed

\* the second session has been started
SecondSessionStarted == \E i \in DOMAIN written : written[i].sess = 2

\* (false, the full ranked list of the first session) has been returned,
\* and no second session exists
ReturnedNotBlunderWithList ==
    /\ cpc = "returned"
    /\ IsSome(result)
    /\ result[1].isBlunder = FALSE
    /\ result[1].alternatives \in Ranked(best_moves)
    /\ nsess = 1
    /\ ~SecondSessionStarted

\* C7: whenever the proposed move equals the first move of a candidate line
\* retained from the first session, check_for_blunder returns isBlunder =
\* false with the full ranked list of the first session and starts no
\* second session.
C7_MatchReturnsNotBlunder ==
    (FirstSessionFolded /\ MatchesRetained) => ReturnedNotBlunderWithList

\* the same, for the calls that get past the indexing of line 259
C7_MatchReturnsUnlessTrapped ==
    (FirstSessionFolded /\ MatchesRetained /\ ~IndexTraps(best_moves))
        => ReturnedNotBlunderWithList

\* a match that was returned with two alternatives
C7_ReturnedWitness ==
    /\ MatchesRetained
    /\ ReturnedNotBlunderWithList
    /\ Len(result[1].alternatives) = 2

\* a match on one retained line while another retained line has no move
C7_TrappedWitness ==
    /\ FirstSessionFolded
    /\ MatchesRetained
    /\ cpc = "panicked"

\* the worker of the first session has read a BestMove of the first search
\* as its last line
FirstBestMoveRead ==
    /\ readLog[1] # <<>>
    /\ Last(readLog[1]).kind = "bestmove"
    /\ Last(readLog[1]).sess = 1

\* C14 as stated: the Position and Go of the second session are written
\* only after the BestMove of the first session has been read and its
\* stream has closed, and the two sessions never have a Go in flight at the
\* same time.
C14_SecondAfterFirstBestMove ==
    /\ SecondSessionStarted => (Ended(1) /\ FirstBestMoveRead)
    /\ Cardinality(Gos) - Cardinality(BestMovesRead) <= 1

\* what the code keeps of C14: the second session is started only after
\* the stream of the first has closed and the caller has taken all of its
\* events (uci.rs:250-272); only when the first worker ended by reading its
\* BestMove is there at most one Go in flight, and otherwise the first
\* worker had aborted on a message outside {Info, BestMove}.
C14_SecondAfterFirstClosed ==
    SecondSessionStarted =>
        /\ Ended(1)
        /\ rcvd[1] = Len(chan[1])
        /\ drained >= 1
        /\ wpc[1] = "done" =>
              /\ FirstBestMoveRead
              /\ Cardinality(Gos) - Cardinality(BestMovesRead) <= 1
        /\ wpc[1] = "panicked" => ~Publishable(parse_one(Last(readLog[1])))

\* the candidate lines the caller has taken from the receiver of session s
Taken(s) == CandidateLines(SubSeq(chan[s], 1, rcvd[s]))

\* map m holds, for each index among the candidate lines evs, the last of
\* them with that index, and nothing else
HoldsLastPerIndex(m, evs) ==
    /\ DOMAIN m = {evs[i].pm.multi_pv : i \in DOMAIN evs}
    /\ \A k \in DOMAIN m :
          \E i \in DOMAIN evs :
              /\ evs[i].pm.multi_pv = k
              /\ evs[i].pm = m[k]
              /\ \A j \in DOMAIN evs : j > i => evs[j].pm.multi_pv # k

\* list has one (score, first move) entry for each index of map m
OneEntryPerIndex(list, m) ==
    /\ Len(list) = Cardinality(DOMAIN m)
    /\ \A k \in DOMAIN m :
          \E i \in DOMAIN list :
              list[i] = [score |-> m[k].score, mv |-> m[k].moves[1]]

\* C15: check_for_blunder folds the candidate lines of a session into a map
\* keyed by multiPvIndex in which a later line replaces an earlier one of
\* the same index: the map holds, for each index that occurred, exactly the
\* last candidate line with that index; the reduced list has one (score,
\* first move) entry per index.
C15_FoldKeepsLastPerIndex ==
    /\ HoldsLastPerIndex(best_moves, Taken(1))
    /\ HoldsLastPerIndex(best_responses, Taken(2))
    /\ (drained >= 1 /\ ~IndexTraps(best_moves)) =>
          \A list \in Ranked(best_moves) : OneEntryPerIndex(list, best_moves)
    /\ (cpc = "returned" /\ nsess = 1) =>
          OneEntryPerIndex(result[1].alternatives, best_moves)

\* the first session is over: two different candidate lines came with one
\* index, and the map holds the later one
C15_Witness ==
    /\ drained >= 1
    /\ Len(Taken(1)) = 2
    /\ Taken(1)[1].pm.multi_pv = Taken(1)[2].pm.multi_pv
    /\ Taken(1)[1].pm # Taken(1)[2].pm
    /\ DOMAIN best_moves = {Taken(1)[2].pm.multi_pv}
    /\ best_moves[Taken(1)[2].pm.multi_pv] = Taken(1)[2].pm

\* the commands written for the second session
SecondCommands == SelectSeq(written, LAMBDA c : c.sess = 2)

\* the second session is the one the claim describes: the position of the
\* first, the proposed move as the only extra move, the depth of the first
SecondSessionAsDescribed ==
    /\ Len(SecondCommands) >= 1 =>
          SecondCommands[1] = [ExpectedPosition(<<proposed>>) EXCEPT !.sess = 2]
    /\ Len(SecondCommands) >= 2 =>
          /\ SecondCommands[2] = [ExpectedGo(depthArg) EXCEPT !.sess = 2]
          /\ \E i \in DOMAIN written :
                /\ written[i].cmd = "Go" /\ written[i].sess = 1
                /\ written[i].depth = SecondCommands[2].depth
    /\ Len(SecondCommands) <= 2
    /\ nsess <= 2

\* C17: when the proposed move matches none of the first moves of the
\* candidate lines of the first session, check_for_blunder runs exactly one
\* further session, with the proposed move as the only extra move, on the
\* same position and at the same depth.
C17_NoMatchRunsSecondSession ==
    /\ (drained >= 1 /\ ~MatchesRetained) => (cpc = "second" \/ nsess = 2)
    /\ SecondSessionAsDescribed

\* the part of C17 the code keeps: a second session, whenever one is
\* started, follows no match and is as described
C17_SecondSessionOnlyWithoutMatch ==
    /\ SecondSessionStarted => (drained >= 1 /\ ~MatchesRetained)
    /\ SecondSessionAsDescribed

\* no match, although a candidate line was retained, and the call trapped
C17_TrappedWitness ==
    /\ drained >= 1
    /\ ~MatchesRetained
    /\ DOMAIN best_moves # {}
    /\ cpc = "panicked"
    /\ nsess = 1

\* list is sorted by score, lowest first
Ascending(list) ==
    \A i \in 1..(Len(list) - 1) : list[i].score <= list[i + 1].score

\* list is a permutation of the (score, first move) pairs of the lines of m
PermutationOfPairs(list, m) ==
    /\ Len(list) = Cardinality(DOMAIN m)
    /\ \E f \in [DOMAIN list -> DOMAIN m] :
          /\ \A i, j \in DOMAIN list : i # j => f[i] # f[j]
          /\ \A i \in DOMAIN list :
                /\ m[f[i]].moves # <<>>
                /\ list[i] = [score |-> m[f[i]].score, mv |-> m[f[i]].moves[1]]

\* C21: the ranked list check_for_blunder returns is sorted by score in
\* ascending order, and it is a permutation of the (score, first move) pairs
\* of the retained candidate lines.
C21_RankedListAscending ==
    (cpc = "returned" /\ nsess = 1) =>
        /\ Ascending(result[1].alternatives)
        /\ PermutationOfPairs(result[1].alternatives, best_moves)

\* a list of two entries of different score has been returned
C21_Witness ==
    /\ cpc = "returned"
    /\ nsess = 1
    /\ Len(result[1].alternatives) = 2
    /\ result[1].alternatives[1].score < result[1].alternatives[2].score

\* every line the engine has written so far is an Info or a BestMove
OnlyInfoAndBestMove ==
    /\ \A i \in DOMAIN stdout : stdout[i].kind \in {"info", "bestmove"}
    /\ \A s \in Sessions : \A i \in DOMAIN readLog[s] :
          readLog[s][i].kind \in {"info", "bestmove"}

\* C28: check_for_blunder does not trap for an engine that answers each Go
\* with Info messages and one BestMove, whether or not the Info messages
\* carry a principal variation and whether or not a session has any.
C28_BlunderCheckNeverTraps == OnlyInfoAndBestMove => cpc # "panicked"

\* C29: check_for_blunder never reports a blunder: whatever it returns has
\* isBlunder = false; returned after the first session alone, the
\* alternatives are the ranked list that holds the proposed move; returned
\* after the second session, the alternatives are empty.
C29_NeverReportsBlunder ==
    /\ cpc = "returned" <=> result # None
    /\ result # None =>
          /\ result[1].isBlunder = FALSE
          /\ drained = 1 => AnyMatches(result[1].alternatives, proposed)
          /\ drained = 2 => /\ result[1].alternatives = <<>>
                            /\ \A list \in Ranked(best_moves) : ~AnyMatches(list, proposed)

\* the function has returned on each of its two paths
C29_WitnessMatch ==
    /\ cpc = "returned"
    /\ drained = 1
    /\ result # None
    /\ Len(result[1].alternatives) >= 2

C29_Witness ==
    /\ cpc = "returned"
    /\ drained = 2
    /\ result # None
    /\ best_moves # EmptyMap
    /\ best_responses # EmptyMap

(***************************************************************************)
(* Properties of the candidate lines.                                      *)
(***************************************************************************)
Max(S) == CHOOSE x \in S : \A y \in S : y <= x

\* the positions of the attributes of one kind in an Info message
DepthsOf(attrs) == {i \in DOMAIN attrs : attrs[i].a = "Depth"}

CpScoresOf(attrs) == {i \in DOMAIN attrs : attrs[i].a = "Score" /\ IsSome(attrs[i].cp)}

PvsOf(attrs) == {i \in DOMAIN attrs : attrs[i].a = "Pv"}

MultiPvsOf(attrs) == {i \in DOMAIN attrs : attrs[i].a = "MultiPv"}

\* every field of pm is the value of the attribute of attrs that carries
\* it, and the default where attrs has none
FromOwnAttributes(pm, attrs) ==
    /\ pm.depth = IF DepthsOf(attrs) = {} THEN 0 ELSE attrs[Max(DepthsOf(attrs))].n
    /\ pm.score = IF CpScoresOf(attrs) = {} THEN 0 ELSE attrs[Max(CpScoresOf(attrs))].cp[1]
    /\ pm.moves = IF PvsOf(attrs) = {} THEN <<>> ELSE attrs[Max(PvsOf(attrs))].moves
    /\ pm.multi_pv = IF MultiPvsOf(attrs) = {} THEN 1 ELSE attrs[Max(MultiPvsOf(attrs))].n

\* C16: each candidate line is built from the attributes of its own Info
\* message alone: a field whose attribute is absent from the message has
\* its default (depth 0, score 0, empty principal variation, multiPvIndex
\* 1), whatever the earlier Info messages of the session carried.
C16_NoCarryBetweenInfos ==
    \A s \in Sessions :
        rx[s] = "alive" =>
            \A i \in 1..Len(CandidateLines(chan[s])) :
                FromOwnAttributes(CandidateLines(chan[s])[i].pm, Infos(readLog[s])[i].attrs)

\* an Info with score, multipv 2 and a pv was followed by an Info with a
\* depth alone, and the second candidate line has the defaults
C16_Witness ==
    \E s \in Sessions :
        /\ rx[s] = "alive"
        /\ Len(CandidateLines(chan[s])) = 2
        /\ CandidateLines(chan[s])[1].pm.multi_pv = 2
        /\ CandidateLines(chan[s])[1].pm.score # 0
        /\ CandidateLines(chan[s])[1].pm.moves # <<>>
        /\ PvsOf(Infos(readLog[s])[2].attrs) = {}
        /\ CandidateLines(chan[s])[2].pm = [depth |-> 1, score |-> 0, multi_pv |-> 1, moves |-> <<>>]

\* the Score attributes of attrs carry a mate distance and none carries a
\* centipawn value
MateOnly(attrs) ==
    /\ CpScoresOf(attrs) = {}
    /\ \E i \in DOMAIN attrs : attrs[i].a = "Score" /\ IsSome(attrs[i].mate)

WithoutScore(attrs) == SelectSeq(attrs, LAMBDA a : a.a # "Score")

\* C30: an Info message whose score carries only a mate distance yields a
\* candidate line with score 0, and the mate distance changes no field: the
\* candidate line is the one the message yields with its score attribute
\* taken out.
C30_MateScoreIsZero ==
    \A s \in Sessions :
        \A i \in 1..Len(CandidateLines(chan[s])) :
            LET attrs == Infos(readLog[s])[i].attrs
                pm == CandidateLines(chan[s])[i].pm
            IN  MateOnly(attrs) =>
                    /\ pm.score = 0
                    /\ FromOwnAttributes(pm, WithoutScore(attrs))

\* a session has delivered the candidate line of a message with a mate
\* distance among other attributes, and that of a message with a centipawn
\* value
C30_Witness ==
    \E s \in Sessions :
        /\ Len(CandidateLines(chan[s])) = 2
        /\ MateOnly(Infos(readLog[s])[1].attrs)
        /\ CandidateLines(chan[s])[1].pm = [depth |-> 3, score |-> 0, multi_pv |-> 2, moves |-> <<"e2e4">>]
        /\ CandidateLines(chan[s])[2].pm.score = 35

(***************************************************************************)
(* Properties of the two locks.                                            *)
(***************************************************************************)
Threads == {"caller"} \cup {Thread(s) : s \in Sessions}

\* C31: no thread holds the lock of the output and the lock of the input at
\* the same time: a worker holds the output's lock only inside recv_msg and
\* the input's lock only to write its Stop, analyze() takes the input's
\* lock alone, and whoever holds the input's lock can go on without
\* another lock.
C31_NoThreadHoldsBothLocks ==
    /\ \A th \in Threads : ~(stdinLock = th /\ stdoutLock = th)
    /\ stdoutLock # "caller"
    /\ \A s \in Sessions :
          /\ stdoutLock = Thread(s) <=> wpc[s] = "locked"
          /\ stdinLock = Thread(s) <=> wpc[s] = "stopping"
          /\ stdinLock = Thread(s) => ENABLED WorkerSendStop(s)
    /\ stdinLock = "caller" <=> aargs # <<>>
    /\ stdinLock = "caller" => ENABLED AnalyzeGo

\* one worker is inside recv_msg with the output's lock while another
\* writes its Stop with the input's lock
C31_Witness ==
    \E s, u \in Sessions :
        /\ s # u
        /\ stdoutLock = Thread(s)
        /\ stdinLock = Thread(u)

Positions == {i \in DOMAIN written : written[i].cmd = "Position"}

\* C32: the Position and the Go of one analyze() call are written under one
\* hold of the input's lock: every Go comes right after the Position of its
\* own call, and a Position is followed by nothing until its Go is written
\* (or for ever, when the write of the Go failed on a closed input).
C32_PositionAndGoAdjacent ==
    /\ \A j \in Gos :
          /\ j - 1 \in Positions
          /\ written[j - 1].sess = written[j].sess
    /\ \A i \in Positions :
          IF i = Len(written)
          THEN \/ stdinLock = "caller" /\ written[i].sess = nsess + 1
               \/ stdinLock = "poisoned" /\ stdinClosed /\ written[i].sess <= nsess
          ELSE i + 1 \in Gos

\* a worker waited for the input's lock while analyze() wrote its two
\* commands, and wrote its Stop right after the Go
C32_Witness ==
    \E j \in Gos :
        /\ written[j].sess = 2
        /\ j + 1 \in StopsOf(1)
        /\ j - 1 \in Positions

Aborted(s) == wpc[s] = "panicked"

\* C33: after a worker aborts on a message outside {Info, BestMove}, both
\* locks are free of it and not poisoned by it: the worker aborted with no
\* guard in hand, so a later analyze() takes the input's lock and its worker
\* the output's lock.  A lock is poisoned only by a write on a closed input
\* or by a read of bytes that are not UTF-8.
C33_AbortLeavesLocksUsable ==
    /\ stdinLock = "poisoned" => stdinClosed
    /\ stdoutLock = "poisoned" => \E t \in Sessions : wpc[t] = "read_failed"
    /\ \A s \in Sessions :
          Aborted(s) =>
              /\ ~Publishable(parse_one(Last(readLog[s])))
              /\ stdinLock # Thread(s)
              /\ stdoutLock # Thread(s)
              /\ \A u \in Sessions : wpc[u] = "read" /\ stdoutLock = "free" =>
                    ENABLED WorkerLockStdout(u)

\* the first worker aborted; analyze() was called again, took the input's
\* lock for its two commands, and its worker is inside recv_msg with the
\* output's lock
C33_Witness ==
    /\ Aborted(1)
    /\ GosOf(2) # {}
    /\ stdinLock = "free"
    /\ wpc[2] = "locked"
    /\ stdoutLock = Thread(2)

(***************************************************************************)
(* Properties of to_notation.                                              *)
(***************************************************************************)
\* a call that has returned the notation of a move of a piece on a board
\* that is no stalemate
Notated ==
    /\ notation # None
    /\ notation[1].ret # None
    /\ notation[1].q.piece # None
    /\ notation[1].q.status # "Stalemate"

NoTwoShareFile(S) == \A a, b \in S : a # b => a[1] # b[1]

NoTwoShareRank(S) == \A a, b \in S : a # b => a[2] # b[2]

\* the disambiguation by the set S of source squares
DisambiguationBy(S, source) ==
    CASE Cardinality(S) <= 1 -> ""
      [] Cardinality(S) > 1 /\ NoTwoShareFile(S) -> FileLetters[source[1]]
      [] ~NoTwoShareFile(S) /\ NoTwoShareRank(S) -> RankDigits[source[2]]
      [] ~NoTwoShareFile(S) /\ ~NoTwoShareRank(S) -> SquareText(source)

\* the move takes a piece: the one on its destination, or a pawn in passing
IsCapture(q) == q.destPiece \/ q.enPassant

\* the notation with the capture mark given by takes
NotationWith(q, takes) ==
    (IF q.piece[1] = "P" THEN "" ELSE q.piece[1])
    \o DisambiguationBy(q.sources, q.source)
    \o (IF takes THEN "x" ELSE "")
    \o SquareText(q.dest)
    \o (IF IsSome(q.promotion) THEN "=" \o q.promotion[1] ELSE "")
    \o CheckSuffix(q)

\* C34: to_notation disambiguates the moving piece by the set S of source
\* squares of the legal moves of its kind to the destination (nothing for
\* at most one square, the file letter when no two share a file, the rank
\* digit when two share a file and no two a rank, the full square when two
\* share a file and two a rank), then adds 'x' for a capture, the
\* destination and '=<piece>' for a promotion.
C34_NotationMarksEveryCapture ==
    Notated => notation[1].ret[1] = NotationWith(notation[1].q, IsCapture(notation[1].q))

\* what to_notation returns: the same, with 'x' exactly when a piece
\* stands on the destination
C34_NotationMarksOccupiedDestination ==
    Notated => notation[1].ret[1] = NotationWith(notation[1].q, notation[1].q.destPiece)

\* the captures of the test and an en passant capture have been notated
C34_WitnessFullSquare ==
    /\ Notated
    /\ notation[1].ret[1] = "Qh1xe1"

C34_WitnessEnPassant ==
    /\ Notated
    /\ notation[1].q.enPassant
    /\ notation[1].ret[1] = "d6"

(***************************************************************************)
(* Properties of the handshake.                                            *)
(***************************************************************************)
HsReads == SelectSeq(hlog, LAMBDA e : e.op = "read")

\* banner lines, a line with an identification, any messages, UciOk, and
\* ReadyOk twice: r is such a sequence of lines read
HandshakeReplies(r) ==
    \E i, j \in DOMAIN r :
        /\ i < j
        /\ r[i].x \in {"id", "banner_id"}
        /\ \A k \in 1..(i - 1) : r[k].x \notin {"id", "banner_id"}
        /\ r[j].x = "uciok"
        /\ \A k \in (i + 1)..(j - 1) : r[k].x # "uciok"
        /\ Len(r) = j + 2
        /\ r[j + 1].x = "readyok"
        /\ r[j + 2].x = "readyok"
        /\ \A k \in DOMAIN r : r[k].x # "invalid"

\* a read that follows the writing of IsReady and is not ReadyOk
BadReadyReply ==
    \E i \in DOMAIN hlog :
        /\ i > 1
        /\ hlog[i].op = "read"
        /\ hlog[i - 1] = Wrote(Cmd("IsReady"))
        /\ hlog[i].x # "readyok"

\* C4: start_engine returns a handle exactly when the engine's replies are
\* banner lines, an identification line, any messages, UciOk, ReadyOk after
\* the first IsReady and ReadyOk after the second; it fails exactly when
\* the first message read after one of the two IsReady is not ReadyOk
\* (with the panic! of line 85 or 110, or with the expect of line 122 when
\* the reply cannot be read at all).
C4_HandshakeOutcome ==
    /\ hpc = "ready" <=> HandshakeReplies(HsReads)
    /\ hpc = "panicked" => BadReadyReply
    /\ BadReadyReply =>
          hpc = IF Last(HsReads).x = "invalid" THEN "read_failed" ELSE "panicked"

C4_Witness ==
    /\ hpc = "ready"
    /\ Len(HsReads) = 6
    /\ HsReads[1].x = "banner"
    /\ HsReads[3].x = "option"

C4_WitnessFailure ==
    /\ hpc = "panicked"
    /\ written = <<Cmd("Uci"), Cmd("IsReady")>> \o StartupCommands

IsPrefix(a, b) == Len(a) <= Len(b) /\ \A i \in DOMAIN a : a[i] = b[i]

\* C5: what start_engine writes is a prefix of Uci, IsReady, UciNewGame,
\* SetOption Threads, SetOption UCI_AnalyseMode = true, SetOption MultiPV,
\* IsReady, and all of it once the handle is returned; IsReady is written
\* only after UciOk has been read, UciNewGame and the options only after
\* ReadyOk has been read.
C5_HandshakeCommandOrder ==
    /\ IsPrefix(written, HandshakeCommands)
    /\ hpc = "ready" => written = HandshakeCommands
    /\ \A i \in DOMAIN hlog :
          hlog[i] = Wrote(Cmd("IsReady")) =>
              \E j \in 1..(i - 1) : hlog[j] = HasRead(Line("uciok"))
    /\ \A i \in DOMAIN hlog :
          hlog[i].op = "write" /\ hlog[i].x \in {"UciNewGame", "SetOption"} =>
              \E j \in 1..(i - 1) : hlog[j] = HasRead(Line("readyok"))

C5_Witness ==
    /\ hpc = "ready"
    /\ Len(written) = 7
    /\ written[6].name = "MultiPV"

\* start_engine has returned the handle or has panicked
HandshakeOver == hpc \in {"ready", "panicked", "read_failed", "write_failed"}

\* C18: the handshake always ends, with a ready handle or with a startup
\* error, also when the engine's output ends before a line with "id " or
\* before UciOk: once the output is at its end, start_engine ends.
C18_HandshakeTerminates == hEof ~> HandshakeOver

\* what the code does at the end of the output: in the two loops of lines
\* 55-74 it stays where it is, and after an IsReady it panics
C18_EofLoopsOrPanics ==
    hEof => hpc \in {"banner", "uciok", "panicked"} \/ (hpc = "write_failed" /\ stdinClosed)

\* the positions in the log of: the reads of a line with "id " in it, the
\* reads of UciOk after the first of them, and the writes of IsReady
IdReads == {i \in DOMAIN hlog : hlog[i].op = "read" /\ hlog[i].x \in {"id", "banner_id"}}

Min(S) == CHOOSE x \in S : \A y \in S : x <= y

UciOkReads ==
    {i \in DOMAIN hlog : /\ hlog[i] = HasRead(Line("uciok"))
                         /\ IdReads # {}
                         /\ i > Min(IdReads)}

IsReadyWrites == {i \in DOMAIN hlog : hlog[i] = Wrote(Cmd("IsReady"))}

\* C19: every line read before the first line with "id " in it is
\* discarded, and so is every message read between that line and UciOk:
\* none of them makes the handshake fail or a command be written, and the
\* first IsReady is written exactly when UciOk is read.  Only a read or
\* a write that fails (bytes that are not UTF-8, an input the engine has
\* closed) ends the handshake before that.
C19_DiscardsUntilUciOk ==
    /\ IsReadyWrites # {} => UciOkReads # {}
    /\ UciOkReads # {} /\ IsReadyWrites = {} => hpc = "write_failed" /\ stdinClosed
    /\ UciOkReads = {} =>
          /\ hpc \in {"start", "banner", "uciok", "read_failed", "write_failed"}
          /\ hpc = "uciok" => IdReads # {}
          /\ hpc = "banner" => IdReads = {}
          /\ hpc = "read_failed" => Last(hlog) = HasRead(InvalidLine)
          /\ hpc = "write_failed" => hlog = <<>> /\ stdinClosed
          /\ written = IF hpc \in {"start", "write_failed"} THEN <<>> ELSE <<Cmd("Uci")>>
    /\ IsReadyWrites # {} =>
          /\ Min(IsReadyWrites) = Min(UciOkReads) + 1
          /\ \A i \in 2..Min(UciOkReads) : hlog[i].op = "read"

\* the first IsReady has been written after a banner line, a UciOk that
\* came before the identification, the identification, and an option
C19_Witness ==
    /\ hpc = "ready1"
    /\ Len(hlog) = 7
    /\ hlog[2] = HasRead(Line("banner"))
    /\ hlog[3] = HasRead(Line("uciok"))
    /\ hlog[4].x \in {"id", "banner_id"}
    /\ hlog[5] = HasRead(Line("option"))
    /\ hlog[6] = HasRead(Line("uciok"))
    /\ hlog[7] = Wrote(Cmd("IsReady"))

====
